---- MODULE Spec2Model ----
(***************************************************************************)
(* Model of github.com/hupe1980/socks: the wire codec, the framed channel *)
(* (Conn), the tunnel, the server session state machines and the dialers.  *)
(*                                                                         *)
(* Octets are naturals 0..255, octet strings are sequences of octets.      *)
(* A Go address string "host:port" is modelled by its abstract syntax, a   *)
(* record [t, b, port]:                                                    *)
(*   t = "none"  the empty string ""                                       *)
(*   t = "ip4"   dotted quad, b = its 4 octets                             *)
(*   t = "ip6"   bracketed IPv6 literal without zone, b = its 16 octets    *)
(*   t = "ip6z"  bracketed literal with a zone ("[fe80::1%eth0]:p"),       *)
(*               b = the characters of the host part                       *)
(*   t = "name"  DNS name, b = its characters                              *)
(* port is the decimal number after the last colon.                        *)
(***************************************************************************)
EXTENDS Integers, Sequences, FiniteSets, TLC

(***************************************************************************)
(* Bounds of the model.                                                    *)
(***************************************************************************)
MaxRelay == 1

MaxOffered == 3

MaxSupported == 2

(***************************************************************************)
(* Protocol constants.                                                     *)
(***************************************************************************)
Socks4Version == 4

Socks5Version == 5

ConnectCommand == 1

BindCommand == 2

AssociateCommand == 3

Socks4StatusGranted == 90

Socks4StatusRejected == 91

Socks4StatusNoIdentd == 92

Socks4StatusInvalidUserID == 93

Socks5StatusGranted == 0

Socks5StatusFailure == 1

Socks5StatusNotAllowed == 2

Socks5StatusNetworkUnreaachable == 3

Socks5StatusHostUnreachable == 4

Socks5StatusConnectionRefused == 5

Socks5StatusTTLExpired == 6

Socks5StatusCMDNotSupported == 7

Socks5StatusAddrTypeNotSupported == 8

AddrTypeIPv4 == 1

AddrTypeFQDN == 3

AddrTypeIPv6 == 4

UsernamePasswordAuthVersion1 == 1

AuthMethodNotRequired == 0

AuthMethodGSSAPI == 1

AuthMethodUsernamePassword == 2

AuthMethodNoAcceptableMethods == 255

AuthStatusSuccess == 0

AuthStatusFailure == 255

(***************************************************************************)
(* Octet-string helpers.                                                   *)
(***************************************************************************)
Take(s, n) == IF n >= Len(s) THEN s ELSE SubSeq(s, 1, n)

Drop(s, n) == IF n >= Len(s) THEN <<>> ELSE SubSeq(s, n + 1, Len(s))

Range(s) == {s[i] : i \in 1..Len(s)}

\* bytes.Buffer.ReadString(0): index of the first NUL, 0 when there is none
FirstZero(s) ==
  IF \E i \in 1..Len(s) : s[i] = 0
  THEN CHOOSE i \in 1..Len(s) : s[i] = 0 /\ \A j \in 1..(i - 1) : s[j] # 0
  ELSE 0

\* byte(port>>8), byte(port)
PortBytes(port) == <<(port \div 256) % 256, port % 256>>

\* (int(port[0]) << 8) | int(port[1])
PortNum(hi, lo) == hi * 256 + lo

(***************************************************************************)
(* Addresses.                                                              *)
(***************************************************************************)
EmptyAddr == [t |-> "none", b |-> <<>>, port |-> 0]

MkAddr(t, b, port) == [t |-> t, b |-> b, port |-> port]

\* the host text contains ':' or '%', so net.JoinHostPort brackets it
NeedsBrackets(chars) == \E i \in 1..Len(chars) : chars[i] \in {58, 37}

IsV4Mapped(b) ==
  /\ Len(b) = 16
  /\ \A i \in 1..10 : b[i] = 0
  /\ b[11] = 255
  /\ b[12] = 255

\* net.IP.To4 of net.ParseIP(host); <<>> stands for nil
To4(host) ==
  IF host.t = "ip4" THEN host.b
  ELSE IF host.t = "ip6" /\ IsV4Mapped(host.b) THEN SubSeq(host.b, 13, 16)
  ELSE <<>>

\* net.IP.To16 of net.ParseIP(host); <<>> stands for nil
To16(host) ==
  IF host.t = "ip4" THEN <<0, 0, 0, 0, 0, 0, 0, 0, 0, 0, 255, 255>> \o host.b
  ELSE IF host.t = "ip6" THEN host.b
  ELSE <<>>

\* net.ParseIP(host) != nil
ParsesAsIP(host) == host.t \in {"ip4", "ip6"}

\* net.JoinHostPort(ip.String(), strconv.Itoa(portNum)) for a decoded IP
JoinIP(b, port) ==
  IF Len(b) = 4 THEN MkAddr("ip4", b, port)
  ELSE IF IsV4Mapped(b) THEN MkAddr("ip4", SubSeq(b, 13, 16), port)
  ELSE MkAddr("ip6", b, port)

\* net.JoinHostPort(string(chars), strconv.Itoa(portNum)) for decoded text
JoinText(chars, port) ==
  IF NeedsBrackets(chars) THEN MkAddr("ip6z", chars, port)
  ELSE MkAddr("name", chars, port)

splitHostPort(address) ==
  IF address.t = "none" THEN [err |-> TRUE, host |-> EmptyAddr, port |-> 0]
  ELSE IF address.port < 1 \/ address.port > 65535
       THEN [err |-> TRUE, host |-> EmptyAddr, port |-> 0]
  ELSE [err |-> FALSE, host |-> address, port |-> address.port]

(***************************************************************************)
(* Wire codec.  Every MarshalBinary yields [err, b]; every UnmarshalBinary *)
(* yields [err, ...fields].  binary.Read of n octets fails when fewer than *)
(* n octets remain; octets after the decoded message are ignored.          *)
(***************************************************************************)
MarshalOk(b) == [err |-> FALSE, b |-> b]

MarshalErr == [err |-> TRUE, b |-> <<>>]

Socks4Request_MarshalBinary_noName(req) ==
  LET sp == splitHostPort(req.Addr)
      dstIP == IF ParsesAsIP(sp.host) THEN To4(sp.host) ELSE <<0, 0, 0, 1>>
  IN IF sp.err THEN MarshalErr
     ELSE MarshalOk(<<Socks4Version, req.CMD>> \o PortBytes(sp.port) \o dstIP
                    \o req.UserID \o <<0>>)

Socks4Request_MarshalBinary(req) ==
  LET sp == splitHostPort(req.Addr)
      dstIP == IF ParsesAsIP(sp.host) THEN To4(sp.host) ELSE <<0, 0, 0, 1>>
      domain == IF ParsesAsIP(sp.host) THEN <<>> ELSE sp.host.b
  IN IF sp.err THEN MarshalErr
     ELSE MarshalOk(<<Socks4Version, req.CMD>> \o PortBytes(sp.port) \o dstIP
                    \o req.UserID \o <<0>>
                    \o (IF domain # <<>> THEN domain \o <<0>> ELSE <<>>))

Socks4RequestErr == [err |-> TRUE, CMD |-> 0, Addr |-> EmptyAddr, UserID |-> <<>>]

Socks4Request_UnmarshalBinary(p) ==
  IF Len(p) < 1 \/ p[1] # Socks4Version THEN Socks4RequestErr
  ELSE IF Len(p) < 8 THEN Socks4RequestErr
  ELSE LET portNum == PortNum(p[3], p[4])
           ip == SubSeq(p, 5, 8)
           r1 == Drop(p, 8)
           z1 == FirstZero(r1)
           userID == Take(r1, z1 - 1)
           r2 == Drop(r1, z1)
           z2 == FirstZero(r2)
           socks4a == ip[1] = 0 /\ ip[2] = 0 /\ ip[3] = 0 /\ ip[4] # 0
       IN IF z1 = 0 THEN Socks4RequestErr
          ELSE IF ~socks4a
               THEN [err |-> FALSE, CMD |-> p[2], Addr |-> JoinIP(ip, portNum),
                     UserID |-> userID]
          ELSE IF z2 = 0 THEN Socks4RequestErr
          ELSE [err |-> FALSE, CMD |-> p[2],
                Addr |-> JoinText(Take(r2, z2 - 1), portNum), UserID |-> userID]

Socks4Response_MarshalBinary(resp) ==
  LET sp == splitHostPort(resp.Addr)
  IN IF resp.Addr = EmptyAddr THEN MarshalOk(<<0, resp.Status>>)
     ELSE IF sp.err THEN MarshalErr
     ELSE MarshalOk(<<0, resp.Status>> \o PortBytes(sp.port) \o To4(sp.host))

\* a decoder of the fixed form only: it always reads DSTPORT and DSTIP
Socks4Response_UnmarshalBinary_fixedOnly(p) ==
  IF Len(p) = 0 THEN [err |-> TRUE, panic |-> TRUE, Status |-> 0, Addr |-> EmptyAddr]
  ELSE IF Len(p) < 2 THEN [err |-> TRUE, panic |-> FALSE, Status |-> 0, Addr |-> EmptyAddr]
  ELSE IF Len(p) < 8 THEN [err |-> TRUE, panic |-> FALSE, Status |-> p[2], Addr |-> EmptyAddr]
  ELSE [err |-> FALSE, panic |-> FALSE, Status |-> p[2],
        Addr |-> JoinIP(SubSeq(p, 5, 8), PortNum(p[3], p[4]))]

\* p[1:] of an empty p is a slice-bounds panic
Socks4Response_UnmarshalBinary(p) ==
  IF Len(p) = 0 THEN [err |-> TRUE, panic |-> TRUE, Status |-> 0, Addr |-> EmptyAddr]
  ELSE IF Len(p) < 2 THEN [err |-> TRUE, panic |-> FALSE, Status |-> 0, Addr |-> EmptyAddr]
  ELSE IF Len(p) = 2 THEN [err |-> FALSE, panic |-> FALSE, Status |-> p[2], Addr |-> EmptyAddr]
  ELSE IF Len(p) < 8 THEN [err |-> TRUE, panic |-> FALSE, Status |-> p[2], Addr |-> EmptyAddr]
  ELSE [err |-> FALSE, panic |-> FALSE, Status |-> p[2],
        Addr |-> JoinIP(SubSeq(p, 5, 8), PortNum(p[3], p[4]))]

MethodSelectRequest_MarshalBinary(req) ==
  MarshalOk(<<Socks5Version, Len(req.Methods) % 256>> \o req.Methods)

MethodSelectRequest_UnmarshalBinary(p) ==
  IF Len(p) < 1 \/ p[1] # Socks5Version THEN [err |-> TRUE, Methods |-> <<>>]
  ELSE IF Len(p) < 2 THEN [err |-> TRUE, Methods |-> <<>>]
  ELSE IF Len(p) < 2 + p[2] THEN [err |-> TRUE, Methods |-> <<>>]
  ELSE [err |-> FALSE, Methods |-> SubSeq(p, 3, 2 + p[2])]

MethodSelectResponse_MarshalBinary(resp) ==
  MarshalOk(<<Socks5Version, resp.Method>>)

MethodSelectResponse_UnmarshalBinary(p) ==
  IF Len(p) < 1 \/ p[1] # Socks5Version THEN [err |-> TRUE, Method |-> 0]
  ELSE IF Len(p) < 2 THEN [err |-> TRUE, Method |-> 0]
  ELSE [err |-> FALSE, Method |-> p[2]]

UsernamePasswordAuthRequest_MarshalBinary(req) ==
  MarshalOk(<<UsernamePasswordAuthVersion1, Len(req.Username) % 256>> \o req.Username
            \o <<Len(req.Password) % 256>> \o req.Password)

UserPassRequestErr == [err |-> TRUE, Username |-> <<>>, Password |-> <<>>]

UsernamePasswordAuthRequest_UnmarshalBinary(p) ==
  IF Len(p) < 1 \/ p[1] # UsernamePasswordAuthVersion1 THEN UserPassRequestErr
  ELSE IF Len(p) < 2 THEN UserPassRequestErr
  ELSE LET ulen == p[2]
       IN IF Len(p) < 2 + ulen + 1 THEN UserPassRequestErr
          ELSE LET plen == p[3 + ulen]
               IN IF Len(p) < 3 + ulen + plen THEN UserPassRequestErr
                  ELSE [err |-> FALSE, Username |-> SubSeq(p, 3, 2 + ulen),
                        Password |-> SubSeq(p, 4 + ulen, 3 + ulen + plen)]

UsernamePasswordAuthResponse_MarshalBinary(resp) ==
  MarshalOk(<<UsernamePasswordAuthVersion1, resp.Status>>)

UsernamePasswordAuthResponse_UnmarshalBinary(p) ==
  IF Len(p) < 1 \/ p[1] # UsernamePasswordAuthVersion1 THEN [err |-> TRUE, Status |-> 0]
  ELSE IF Len(p) < 2 THEN [err |-> TRUE, Status |-> 0]
  ELSE [err |-> FALSE, Status |-> p[2]]

ReadAddrErr == [err |-> TRUE, addr |-> EmptyAddr]

\* r is the unread rest of the buffer
readAddr(r) ==
  IF Len(r) < 1 THEN ReadAddrErr
  ELSE IF r[1] = AddrTypeIPv4
       THEN IF Len(r) < 7 THEN ReadAddrErr
            ELSE [err |-> FALSE, addr |-> JoinIP(SubSeq(r, 2, 5), PortNum(r[6], r[7]))]
  ELSE IF r[1] = AddrTypeIPv6
       THEN IF Len(r) < 19 THEN ReadAddrErr
            ELSE [err |-> FALSE, addr |-> JoinIP(SubSeq(r, 2, 17), PortNum(r[18], r[19]))]
  ELSE IF r[1] = AddrTypeFQDN
       THEN IF Len(r) < 2 THEN ReadAddrErr
            ELSE LET n == r[2]
                 IN IF Len(r) < 4 + n THEN ReadAddrErr
                    ELSE [err |-> FALSE,
                          addr |-> JoinText(SubSeq(r, 3, 2 + n), PortNum(r[3 + n], r[4 + n]))]
  ELSE ReadAddrErr

Socks5Request_MarshalBinary(req) ==
  LET sp == splitHostPort(req.Addr)
      head == <<Socks5Version, req.CMD, 0>>
  IN IF sp.err THEN MarshalErr
     ELSE IF ParsesAsIP(sp.host)
          THEN IF To4(sp.host) # <<>>
               THEN MarshalOk(head \o <<AddrTypeIPv4>> \o To4(sp.host) \o PortBytes(sp.port))
               ELSE MarshalOk(head \o <<AddrTypeIPv6>> \o To16(sp.host) \o PortBytes(sp.port))
     ELSE IF Len(sp.host.b) > 255 THEN MarshalErr
     ELSE MarshalOk(head \o <<AddrTypeFQDN, Len(sp.host.b)>> \o sp.host.b
                    \o PortBytes(sp.port))

Socks5Request_UnmarshalBinary(p) ==
  IF Len(p) < 1 \/ p[1] # Socks5Version THEN [err |-> TRUE, CMD |-> 0, Addr |-> EmptyAddr]
  ELSE IF Len(p) < 3 THEN [err |-> TRUE, CMD |-> 0, Addr |-> EmptyAddr]
  ELSE LET a == readAddr(Drop(p, 3))
       IN IF a.err THEN [err |-> TRUE, CMD |-> p[2], Addr |-> EmptyAddr]
          ELSE [err |-> FALSE, CMD |-> p[2], Addr |-> a.addr]

Socks5Response_MarshalBinary(resp) ==
  LET sp == splitHostPort(resp.Addr)
      head == <<Socks5Version, resp.Status, 0>>
  IN IF resp.Addr = EmptyAddr THEN MarshalOk(head)
     ELSE IF sp.err THEN MarshalErr
     ELSE IF To4(sp.host) # <<>>
          THEN MarshalOk(head \o <<AddrTypeIPv4>> \o To4(sp.host) \o PortBytes(sp.port))
     ELSE IF To16(sp.host) # <<>>
          THEN MarshalOk(head \o <<AddrTypeIPv6>> \o To16(sp.host) \o PortBytes(sp.port))
     ELSE MarshalOk(head \o PortBytes(sp.port))

\* a decoder that stops after the version octet and leaves Status at zero
Socks5Response_UnmarshalBinary_versionOnly(p) ==
  IF Len(p) < 1 \/ p[1] # Socks5Version THEN [err |-> TRUE, Status |-> 0, Addr |-> EmptyAddr]
  ELSE [err |-> FALSE, Status |-> 0, Addr |-> EmptyAddr]

Socks5Response_UnmarshalBinary(p) ==
  IF Len(p) < 1 \/ p[1] # Socks5Version THEN [err |-> TRUE, Status |-> 0, Addr |-> EmptyAddr]
  ELSE IF Len(p) < 2 THEN [err |-> TRUE, Status |-> 0, Addr |-> EmptyAddr]
  ELSE IF Len(p) <= 3 THEN [err |-> FALSE, Status |-> p[2], Addr |-> EmptyAddr]
  ELSE LET a == readAddr(Drop(p, 3))
       IN IF a.err THEN [err |-> TRUE, Status |-> p[2], Addr |-> EmptyAddr]
          ELSE [err |-> FALSE, Status |-> p[2], Addr |-> a.addr]

(***************************************************************************)
(* State.                                                                  *)
(***************************************************************************)
VARIABLES
  cfg,        \* the Server built by New: authMethods, authenticate, ident, listener
  h,          \* the handler struct handleConnection builds (ver = 0: none yet)
  spc,        \* position of the goroutine running handleConnection
  ret,        \* what handleConnection returned
  rbuf,       \* octets buffered in the bufio.Reader of the server's Conn
  req,        \* the request the version handler decoded
  c2s,        \* chunks in flight from the client to the server
  cEnd,       \* client side of the stream: "open", "eof" (FIN) or "reset"
  s2c,        \* chunks in flight from the server to the client
  connClosed, \* the server has closed the accepted connection
  target,     \* the connection dialed by handleConnect
  tun,        \* Conn.Tunnel: the two proxy goroutines and errCh
  trace,      \* history of the I/O events of the server session
  bind,       \* the listener of handleBind and the peer it accepted
  dcfg,       \* the Socks5Dialer: authMethods, authenticate and its credentials
  dpc,        \* position of DialContext
  dret,       \* what DialContext returned: "stream" or an error
  dbuf,       \* octets buffered in the bufio.Reader of the dialer's Conn
  dClosed,    \* the dialer has closed the proxy connection
  fin,        \* arguments of the pure function under test
  fout,       \* its result
  conn2       \* position of the goroutine Serve started for a second connection

vars == <<cfg, h, spc, ret, rbuf, req, c2s, cEnd, s2c, connClosed, target, tun,
          trace, bind, dcfg, dpc, dret, dbuf, dClosed, fin, fout, conn2>>

srvVars == <<cfg, h, spc, ret, rbuf, req, connClosed, target, tun, trace, bind>>

dialVars == <<dcfg, dpc, dret, dbuf, dClosed>>

funVars == <<fin, fout>>

(***************************************************************************)
(* Events of the history.                                                  *)
(***************************************************************************)
Ev(e, t, v, addr, ok, b) == [e |-> e, t |-> t, v |-> v, addr |-> addr, ok |-> ok, b |-> b]

ReadEv(t, ok, b) == Ev("read", t, 0, EmptyAddr, ok, b)

WriteEv(t, v, addr, ok, b) == Ev("write", t, v, addr, ok, b)

SimpleEv(e, ok) == Ev(e, "", 0, EmptyAddr, ok, <<>>)

AddrEv(e, addr, ok) == Ev(e, "", 0, addr, ok, <<>>)

Events(e) == {i \in 1..Len(trace) : trace[i].e = e}

EventsOf(e, t) == {i \in 1..Len(trace) : trace[i].e = e /\ trace[i].t = t}

(***************************************************************************)
(* Framed channel (Conn) of the server.                                    *)
(***************************************************************************)
\* the underlying Read returns: data, FIN, a reset, or the socket is closed
ConnReadable == rbuf # <<>> \/ c2s # <<>> \/ cEnd # "open" \/ connClosed

\* Conn.Read up to its UnmarshalBinary call: one bufio Read of at most 1024
\* octets returns what is buffered, else the result of one underlying Read
ConnRead ==
  IF rbuf # <<>> THEN [err |-> FALSE, p |-> rbuf, c2s |-> c2s]
  ELSE IF c2s # <<>> /\ ~connClosed THEN [err |-> FALSE, p |-> Head(c2s), c2s |-> Tail(c2s)]
  ELSE [err |-> TRUE, p |-> <<>>, c2s |-> c2s]

\* Conn.Write: MarshalBinary, then one Write that succeeds (wok) or fails
ConnWrite(m, wok) ==
  IF m.err \/ ~wok THEN [err |-> TRUE, b |-> <<>>] ELSE [err |-> FALSE, b |-> m.b]

Sent(ch, w) == IF w.err THEN ch ELSE Append(ch, w.b)

(***************************************************************************)
(* Server: New and handleConnection.                                       *)
(***************************************************************************)
NoRequest == [CMD |-> 0, Addr |-> EmptyAddr, UserID |-> <<>>]

NoHandler == [ver |-> 0, authMethods |-> <<>>, authenticate |-> "nil",
              ident |-> "nil", listener |-> "nil"]

\* the struct literals of handleConnection set logger, dialer, conn and, for
\* SOCKS5, authMethods and authenticate; listener and ident keep their zero value
NewSocks4Handler(s) == [ver |-> Socks4Version, authMethods |-> <<>>,
                        authenticate |-> "nil", ident |-> "nil", listener |-> "nil"]

NewSocks5Handler(s) == [ver |-> Socks5Version, authMethods |-> s.authMethods,
                        authenticate |-> s.authenticate, ident |-> "nil",
                        listener |-> "nil"]

NoTarget == [st |-> "none", local |-> EmptyAddr, wclosed |-> FALSE]

NoTunnel == [up |-> "idle", down |-> "idle", errCh |-> <<>>, got |-> 0,
             nup |-> 0, ndown |-> 0, cwclosed |-> FALSE]

\* no listener yet, nothing accepted
NoBind == [lst |-> "none", laddr |-> EmptyAddr, paddr |-> EmptyAddr]

\* the deferred target.Close() of handleConnect
ClosedTarget(t) == IF t.st = "open" THEN [t EXCEPT !.st = "closed"] ELSE t

\* mutant: the default case falls into the SOCKS5 handler
versionSwitch_defaultV5(version) ==
  IF version = Socks4Version THEN "s4_handle" ELSE "s5_greet"

\* switch Version(version[0]) of handleConnection
versionSwitch(version) ==
  IF version = Socks4Version THEN "s4_handle"
  ELSE IF version = Socks5Version THEN "s5_greet"
  ELSE "unsupported"

\* mutant: the peeked octets leave the buffer
Conn_Peek_consuming(p, n) == [peeked |-> Take(p, n), buffered |-> Drop(p, n)]

\* Conn.Peek(n): bufio.Reader.Peek fills the buffer with what one Read
\* returns (p) and hands out its first n octets, which stay buffered
Conn_Peek(p, n) == [peeked |-> Take(p, n), buffered |-> p]

\* handleConnection: Peek(1), the version switch and the handler struct
HandleConnection ==
  /\ spc = "peek"
  /\ ConnReadable
  /\ LET rd == ConnRead
         pk == Conn_Peek(rd.p, 1)
         version == pk.peeked[1]
     IN /\ rbuf' = pk.buffered
        /\ c2s' = rd.c2s
        /\ trace' = Append(trace, Ev("peek", "", 0, EmptyAddr, ~rd.err, pk.peeked))
        /\ IF rd.err
           THEN /\ spc' = "done" /\ ret' = "peek error" /\ connClosed' = TRUE
                /\ h' = h
           ELSE IF versionSwitch(version) = "s4_handle"
           THEN /\ spc' = "s4_handle" /\ h' = NewSocks4Handler(cfg)
                /\ UNCHANGED <<ret, connClosed>>
           ELSE IF versionSwitch(version) = "s5_greet"
           THEN /\ spc' = "s5_greet" /\ h' = NewSocks5Handler(cfg)
                /\ UNCHANGED <<ret, connClosed>>
           ELSE /\ spc' = "done" /\ ret' = "unsupported socks version"
                /\ connClosed' = TRUE /\ h' = h
  /\ UNCHANGED <<cfg, req, cEnd, s2c, target, tun, bind, dialVars, funVars, conn2>>

(***************************************************************************)
(* The environment of a handler: what a dial can yield.                    *)
(***************************************************************************)
LocalV4 == MkAddr("ip4", <<10, 0, 0, 2>>, 40000)

LocalV6 == MkAddr("ip6", <<32, 1, 0, 0, 0, 0, 0, 0, 0, 0, 0, 0, 0, 0, 0, 2>>, 40001)

\* "[fe80::2%eth0]:40002", abridged to the characters "f:2%0"
LocalV6Zone == MkAddr("ip6z", <<102, 58, 50, 37, 48>>, 40002)

TargetLocals == {LocalV4, LocalV6, LocalV6Zone}

\* listener.Addr() of a listener on ":0": the unspecified address, a free port
ListenAddr == MkAddr("ip6", <<0, 0, 0, 0, 0, 0, 0, 0, 0, 0, 0, 0, 0, 0, 0, 0>>, 40010)

\* conn.RemoteAddr() of the connection Accept returns: the host of the
\* request from another port, another host from the port of the request, and
\* a link-local host ("[fe80::9%eth0]:50002", abridged to "f:9%0")
PeerSameIP == MkAddr("ip4", <<127, 0, 0, 1>>, 50000)

PeerOtherIP == MkAddr("ip4", <<10, 0, 0, 9>>, 8080)

PeerV6Zone == MkAddr("ip6z", <<102, 58, 57, 37, 48>>, 50002)

Peers == {PeerSameIP, PeerOtherIP, PeerV6Zone}

\* the IP field of the TCPAddr behind an address: "[fe80::9%eth0]:50002" is
\* the String() of the IP fe80::9 with the Zone eth0
TCPAddrIP(a) ==
  IF a = PeerV6Zone
  THEN MkAddr("ip6", <<254, 128, 0, 0, 0, 0, 0, 0, 0, 0, 0, 0, 0, 0, 0, 9>>, a.port)
  ELSE a

\* checkIPAddr(expected, actual) = nil: both split into host and port and the
\* host texts are equal; the ports are not looked at
checkIPAddr(expected, actual) ==
  /\ expected.t # "none"
  /\ actual.t # "none"
  /\ expected.t = actual.t
  /\ expected.b = actual.b

\* err.Error() of a failed dial, by the substrings the handler looks for
DialErrors == [refused : BOOLEAN, netunreach : BOOLEAN]

\* a dial in the history; v records which substrings the error text contains
DialEv(addr, ok, msg) ==
  Ev("dial", "", (IF msg.refused THEN 1 ELSE 0) + (IF msg.netunreach THEN 2 ELSE 0),
     addr, ok, <<>>)

NoDialError == [refused |-> FALSE, netunreach |-> FALSE]

(***************************************************************************)
(* SOCKS5 server handler.                                                  *)
(***************************************************************************)
RECURSIVE containsMethod(_, _)
\* the inner loop of selectAuthMethod over h.authMethods
containsMethod(dm, sms) ==
  IF sms = <<>> THEN FALSE
  ELSE IF dm = Head(sms) THEN TRUE
  ELSE containsMethod(dm, Tail(sms))

RECURSIVE selectAuthMethod_serverOrder(_, _)
\* mutant: the loops are nested the other way round, the server's order decides
selectAuthMethod_serverOrder(authMethods, hAuthMethods) ==
  IF hAuthMethods = <<>> THEN AuthMethodNoAcceptableMethods
  ELSE IF containsMethod(Head(hAuthMethods), authMethods) THEN Head(hAuthMethods)
  ELSE selectAuthMethod_serverOrder(authMethods, Tail(hAuthMethods))

RECURSIVE selectAuthMethod(_, _)
selectAuthMethod(authMethods, hAuthMethods) ==
  IF authMethods = <<>> THEN AuthMethodNoAcceptableMethods
  ELSE IF containsMethod(Head(authMethods), hAuthMethods) THEN Head(authMethods)
  ELSE selectAuthMethod(Tail(authMethods), hAuthMethods)

\* mutant: the authenticator is never invoked
afterMethodSelect_skipAuth(method, authenticate) ==
  IF method = AuthMethodNoAcceptableMethods THEN "return" ELSE "s5_request"

\* mutant: NoAcceptable does not end the session
afterMethodSelect_noReturn(method, authenticate) ==
  IF authenticate # "nil" THEN "s5_auth" ELSE "s5_request"

\* mutant: the request is served without having been read
afterMethodSelect_skipRequest(method, authenticate) ==
  IF method = AuthMethodNoAcceptableMethods THEN "return" ELSE "s5_connect"

\* socks5Handler.handle between the write of the MethodSelectResponse and the
\* read of the Socks5Request
afterMethodSelect(method, authenticate) ==
  IF method = AuthMethodNoAcceptableMethods THEN "return"
  ELSE IF authenticate # "nil" THEN "s5_auth"
  ELSE "s5_request"

\* socks5Handler.handle up to the authenticator
S5Greet ==
  /\ spc = "s5_greet"
  /\ ConnReadable
  /\ \E wok \in BOOLEAN :
       LET rd == ConnRead
           m == MethodSelectRequest_UnmarshalBinary(rd.p)
           method == selectAuthMethod(m.Methods, h.authMethods)
           w == ConnWrite(MethodSelectResponse_MarshalBinary([Method |-> method]), wok)
           rev == ReadEv("MethodSelectRequest", ~rd.err /\ ~m.err, rd.p)
           wev == WriteEv("MethodSelectResponse", method, EmptyAddr, ~w.err, w.b)
       IN /\ rbuf' = <<>>
          /\ c2s' = rd.c2s
          /\ IF rd.err \/ m.err
             THEN /\ spc' = "done" /\ ret' = "read error" /\ connClosed' = TRUE
                  /\ trace' = Append(trace, rev)
                  /\ s2c' = s2c
             ELSE /\ trace' = trace \o <<rev, wev>>
                  /\ s2c' = Sent(s2c, w)
                  /\ IF w.err
                     THEN spc' = "done" /\ ret' = "write error" /\ connClosed' = TRUE
                     ELSE IF afterMethodSelect(method, h.authenticate) = "return"
                     THEN /\ spc' = "done" /\ connClosed' = TRUE
                          /\ ret' = "no supported authentication method"
                     ELSE /\ spc' = afterMethodSelect(method, h.authenticate)
                          /\ UNCHANGED <<ret, connClosed>>
  /\ UNCHANGED <<cfg, h, req, cEnd, target, tun, bind, dialVars, funVars, conn2>>

\* mutant: only the user name is compared
userPassStatus_userOnly(authReq, user, pass) ==
  IF authReq.Username = user THEN AuthStatusSuccess ELSE AuthStatusFailure

\* userPassServerAuthenticateFuncGen(user, pass): the status it answers
userPassStatus(authReq, user, pass) ==
  IF authReq.Username = user /\ authReq.Password = pass
  THEN AuthStatusSuccess ELSE AuthStatusFailure

\* h.authenticate(ctx, h.conn, method) with the credential-checking authenticator
S5AuthUserPass ==
  /\ spc = "s5_auth"
  /\ h.authenticate = "userpass"
  /\ ConnReadable
  /\ \E wok \in BOOLEAN :
       LET rd == ConnRead
           authReq == UsernamePasswordAuthRequest_UnmarshalBinary(rd.p)
           status == userPassStatus(authReq, cfg.user, cfg.pass)
           w == ConnWrite(UsernamePasswordAuthResponse_MarshalBinary([Status |-> status]), wok)
           aev == SimpleEv("auth", ~rd.err /\ ~authReq.err /\ ~w.err)
           rev == ReadEv("UsernamePasswordAuthRequest", ~rd.err /\ ~authReq.err, rd.p)
           wev == WriteEv("UsernamePasswordAuthResponse", status, EmptyAddr, ~w.err, w.b)
       IN /\ rbuf' = <<>>
          /\ c2s' = rd.c2s
          /\ IF rd.err \/ authReq.err
             THEN /\ spc' = "done" /\ ret' = "auth error" /\ connClosed' = TRUE
                  /\ trace' = trace \o <<aev, rev>>
                  /\ s2c' = s2c
             ELSE /\ trace' = trace \o <<aev, rev, wev>>
                  /\ s2c' = Sent(s2c, w)
                  /\ IF w.err
                     THEN spc' = "done" /\ ret' = "auth error" /\ connClosed' = TRUE
                     ELSE spc' = "s5_request" /\ UNCHANGED <<ret, connClosed>>
  /\ UNCHANGED <<cfg, h, req, cEnd, target, tun, bind, dialVars, funVars, conn2>>

\* h.authenticate(ctx, h.conn, method) with any other injected authenticator:
\* it returns nil or an error
S5AuthCustom ==
  /\ spc = "s5_auth"
  /\ h.authenticate = "custom"
  /\ \E ok \in BOOLEAN :
       /\ trace' = Append(trace, SimpleEv("auth", ok))
       /\ IF ok
          THEN spc' = "s5_request" /\ UNCHANGED <<ret, connClosed>>
          ELSE spc' = "done" /\ ret' = "auth error" /\ connClosed' = TRUE
  /\ UNCHANGED <<cfg, h, rbuf, req, c2s, cEnd, s2c, target, tun, bind, dialVars, funVars, conn2>>

\* mutant: ASSOCIATE is served like CONNECT
socks5CommandSwitch_associate(cmd) ==
  IF cmd \in {ConnectCommand, AssociateCommand} THEN "s5_connect"
  ELSE IF cmd = BindCommand THEN "s5_bind"
  ELSE "reject"

\* switch req.CMD of socks5Handler.handle
socks5CommandSwitch(cmd) ==
  IF cmd = ConnectCommand THEN "s5_connect"
  ELSE IF cmd = BindCommand THEN "s5_bind"
  ELSE "reject"

\* socks5Handler.handle from the read of the Socks5Request on
S5Request ==
  /\ spc = "s5_request"
  /\ ConnReadable
  /\ \E wok \in BOOLEAN :
       LET rd == ConnRead
           m == Socks5Request_UnmarshalBinary(rd.p)
           w == ConnWrite(Socks5Response_MarshalBinary(
                  [Status |-> Socks5StatusCMDNotSupported, Addr |-> EmptyAddr]), wok)
           rev == ReadEv("Socks5Request", ~rd.err /\ ~m.err, rd.p)
           wev == WriteEv("Socks5Response", Socks5StatusCMDNotSupported, EmptyAddr,
                          ~w.err, w.b)
       IN /\ rbuf' = <<>>
          /\ c2s' = rd.c2s
          /\ IF rd.err \/ m.err
             THEN /\ spc' = "done" /\ ret' = "read error" /\ connClosed' = TRUE
                  /\ trace' = Append(trace, rev)
                  /\ UNCHANGED <<req, s2c>>
             ELSE /\ req' = [CMD |-> m.CMD, Addr |-> m.Addr, UserID |-> <<>>]
                  /\ IF socks5CommandSwitch(m.CMD) # "reject"
                     THEN /\ spc' = socks5CommandSwitch(m.CMD)
                          /\ trace' = Append(trace, rev)
                          /\ UNCHANGED <<ret, connClosed, s2c>>
                     ELSE /\ spc' = "done" /\ connClosed' = TRUE
                          /\ ret' = IF w.err THEN "write error" ELSE "nil"
                          /\ trace' = trace \o <<rev, wev>>
                          /\ s2c' = Sent(s2c, w)
  /\ UNCHANGED <<cfg, h, cEnd, target, tun, bind, dialVars, funVars, conn2>>

\* writeErr := h.conn.Write(...); if writeErr != nil { return writeErr }; return err
errorAfterReply(writeFailed, err) == IF writeFailed THEN "write error" ELSE err

\* mutant: "network is unreachable" is looked for first
connectErrorStatus_unreachFirst(msg) ==
  IF msg.netunreach THEN Socks5StatusNetworkUnreaachable
  ELSE IF msg.refused THEN Socks5StatusConnectionRefused
  ELSE Socks5StatusHostUnreachable

\* the status socks5Handler.handleConnect derives from err.Error()
connectErrorStatus(msg) ==
  IF msg.refused THEN Socks5StatusConnectionRefused
  ELSE IF msg.netunreach THEN Socks5StatusNetworkUnreaachable
  ELSE Socks5StatusHostUnreachable

\* the replies of socks5Handler.handleConnect
socks5ConnectFailure(status) == [Status |-> status, Addr |-> EmptyAddr]

socks5ConnectGranted(local) == [Status |-> Socks5StatusGranted, Addr |-> local]

StartedTunnel == [up |-> "copy", down |-> "copy", errCh |-> <<>>, got |-> 0,
                  nup |-> 0, ndown |-> 0, cwclosed |-> FALSE]

\* socks5Handler.handleConnect up to the call of Tunnel
S5Connect ==
  /\ spc = "s5_connect"
  /\ \E wok \in BOOLEAN :
       \/ \E msg \in DialErrors :
            LET status == connectErrorStatus(msg)
                resp == socks5ConnectFailure(status)
                w == ConnWrite(Socks5Response_MarshalBinary(resp), wok)
            IN /\ trace' = trace \o <<DialEv(req.Addr, FALSE, msg),
                                      WriteEv("Socks5Response", resp.Status, resp.Addr,
                                              ~w.err, w.b)>>
               /\ s2c' = Sent(s2c, w)
               /\ spc' = "done" /\ connClosed' = TRUE
               /\ ret' = errorAfterReply(w.err, "dial error")
               /\ UNCHANGED <<target, tun>>
       \/ \E local \in TargetLocals :
            LET resp == socks5ConnectGranted(local)
                w == ConnWrite(Socks5Response_MarshalBinary(resp), wok)
                open == [st |-> "open", local |-> local, wclosed |-> FALSE]
            IN /\ trace' = trace \o <<DialEv(req.Addr, TRUE, NoDialError),
                                      WriteEv("Socks5Response", resp.Status, resp.Addr,
                                              ~w.err, w.b)>>
               /\ s2c' = Sent(s2c, w)
               /\ IF w.err
                  THEN /\ spc' = "done" /\ connClosed' = TRUE /\ ret' = "write error"
                       /\ target' = ClosedTarget(open)
                       /\ tun' = tun
                  ELSE /\ spc' = "tunnel" /\ target' = open /\ tun' = StartedTunnel
                       /\ UNCHANGED <<ret, connClosed>>
  /\ UNCHANGED <<cfg, h, rbuf, req, c2s, cEnd, bind, dialVars, funVars, conn2>>

\* the replies of socks5Handler.handleBind
socks5BindFailure == [Status |-> Socks5StatusFailure, Addr |-> EmptyAddr]

socks5BindListening(laddr) == [Status |-> Socks5StatusGranted, Addr |-> laddr]

socks5BindGranted(paddr) == [Status |-> Socks5StatusGranted, Addr |-> paddr]

\* socks5Handler.handleBind: h.listener.Listen on the listener field of the
\* handler; a nil interface there is a nil-pointer panic, during which the
\* deferred conn.Close() of handleConnection still runs
S5BindListen ==
  /\ spc = "s5_bind"
  /\ IF h.listener = "nil"
     THEN /\ spc' = "panic" /\ ret' = "panic" /\ connClosed' = TRUE
          /\ trace' = Append(trace, SimpleEv("panic", FALSE))
          /\ UNCHANGED <<s2c, bind>>
     ELSE \E lok \in BOOLEAN, wok \in BOOLEAN :
            LET resp == IF lok THEN socks5BindListening(ListenAddr) ELSE socks5BindFailure
                w == ConnWrite(Socks5Response_MarshalBinary(resp), wok)
            IN /\ trace' = trace \o <<AddrEv("listen", IF lok THEN ListenAddr ELSE EmptyAddr, lok),
                                      WriteEv("Socks5Response", resp.Status, resp.Addr, ~w.err, w.b)>>
               /\ s2c' = Sent(s2c, w)
               /\ bind' = IF lok THEN [bind EXCEPT !.lst = "open", !.laddr = ListenAddr]
                          ELSE bind
               /\ IF lok /\ ~w.err
                  THEN spc' = "s5_accept" /\ UNCHANGED <<ret, connClosed>>
                  ELSE /\ spc' = "done" /\ connClosed' = TRUE
                       /\ ret' = IF lok THEN "write error"
                                 ELSE errorAfterReply(w.err, "listen error")
  /\ UNCHANGED <<cfg, h, rbuf, req, c2s, cEnd, target, tun, dialVars, funVars, conn2>>

\* socks5Handler.handleBind from listener.Accept() on
S5BindAccept ==
  /\ spc = "s5_accept"
  /\ \E aok \in BOOLEAN, wok \in BOOLEAN, peer \in Peers :
       LET match == checkIPAddr(req.Addr, peer)
           resp == IF aok /\ match THEN socks5BindGranted(peer) ELSE socks5BindFailure
           w == ConnWrite(Socks5Response_MarshalBinary(resp), wok)
           wev == WriteEv("Socks5Response", resp.Status, resp.Addr, ~w.err, w.b)
           conn == [st |-> "open", local |-> bind.laddr, wclosed |-> FALSE]
       IN IF ~aok
          THEN /\ trace' = trace \o <<AddrEv("accept", EmptyAddr, FALSE), wev>>
               /\ s2c' = Sent(s2c, w)
               /\ spc' = "done" /\ connClosed' = TRUE
               /\ ret' = errorAfterReply(w.err, "accept error")
               /\ UNCHANGED <<bind, target, tun>>
          ELSE /\ bind' = [bind EXCEPT !.lst = "closed", !.paddr = peer]
               /\ trace' = trace \o <<AddrEv("accept", peer, TRUE), wev>>
               /\ s2c' = Sent(s2c, w)
               /\ IF ~match
                  THEN /\ target' = ClosedTarget(conn)
                       /\ spc' = "done" /\ connClosed' = TRUE
                       /\ ret' = errorAfterReply(w.err, "ip mismatch")
                       /\ tun' = tun
                  ELSE /\ target' = conn
                       /\ IF w.err
                          THEN /\ spc' = "done" /\ connClosed' = TRUE
                               /\ ret' = "write error"
                               /\ tun' = tun
                          ELSE /\ spc' = "tunnel" /\ tun' = StartedTunnel
                               /\ UNCHANGED <<ret, connClosed>>
  /\ UNCHANGED <<cfg, h, rbuf, req, c2s, cEnd, dialVars, funVars, conn2>>

(***************************************************************************)
(* SOCKS4 server handler.                                                  *)
(***************************************************************************)
\* switch req.CMD of socks4Handler.handle
socks4CommandSwitch(cmd) ==
  IF cmd = ConnectCommand THEN "s4_connect"
  ELSE IF cmd = BindCommand THEN "s4_bind"
  ELSE "reject"

\* socks4Handler.handle
S4Handle ==
  /\ spc = "s4_handle"
  /\ ConnReadable
  /\ \E wok \in BOOLEAN, identOk \in BOOLEAN :
       LET rd == ConnRead
           m == Socks4Request_UnmarshalBinary(rd.p)
           w == ConnWrite(Socks4Response_MarshalBinary(
                  [Status |-> Socks4StatusRejected, Addr |-> EmptyAddr]), wok)
           rev == ReadEv("Socks4Request", ~rd.err /\ ~m.err, rd.p)
           iev == IF h.ident # "nil" THEN <<SimpleEv("ident", identOk)>> ELSE <<>>
           wev == WriteEv("Socks4Response", Socks4StatusRejected, EmptyAddr, ~w.err, w.b)
       IN /\ rbuf' = <<>>
          /\ c2s' = rd.c2s
          /\ IF rd.err \/ m.err
             THEN /\ spc' = "done" /\ ret' = "read error" /\ connClosed' = TRUE
                  /\ trace' = Append(trace, rev)
                  /\ UNCHANGED <<req, s2c>>
             ELSE /\ req' = [CMD |-> m.CMD, Addr |-> m.Addr, UserID |-> m.UserID]
                  /\ IF h.ident # "nil" /\ ~identOk
                     THEN /\ spc' = "done" /\ ret' = "ident error" /\ connClosed' = TRUE
                          /\ trace' = trace \o <<rev>> \o iev
                          /\ s2c' = s2c
                     ELSE IF socks4CommandSwitch(m.CMD) # "reject"
                     THEN /\ spc' = socks4CommandSwitch(m.CMD)
                          /\ trace' = trace \o <<rev>> \o iev
                          /\ UNCHANGED <<ret, connClosed, s2c>>
                     ELSE /\ spc' = "done" /\ connClosed' = TRUE
                          /\ ret' = IF w.err THEN "write error" ELSE "nil"
                          /\ trace' = trace \o <<rev>> \o iev \o <<wev>>
                          /\ s2c' = Sent(s2c, w)
  /\ UNCHANGED <<cfg, h, cEnd, target, tun, bind, dialVars, funVars, conn2>>

\* the replies of socks4Handler.handleConnect
socks4ConnectRejected == [Status |-> Socks4StatusRejected, Addr |-> EmptyAddr]

\* mutant: the reply carries the local address of the target, as in SOCKS5
socks4ConnectGranted_withLocal(local) == [Status |-> Socks4StatusGranted, Addr |-> local]

socks4ConnectGranted(local) == [Status |-> Socks4StatusGranted, Addr |-> EmptyAddr]

\* socks4Handler.handleConnect up to the call of Tunnel
S4Connect ==
  /\ spc = "s4_connect"
  /\ \E wok \in BOOLEAN :
       \/ \E msg \in DialErrors :
            LET resp == socks4ConnectRejected
                w == ConnWrite(Socks4Response_MarshalBinary(resp), wok)
            IN /\ trace' = trace \o <<DialEv(req.Addr, FALSE, msg),
                                      WriteEv("Socks4Response", resp.Status, resp.Addr,
                                              ~w.err, w.b)>>
               /\ s2c' = Sent(s2c, w)
               /\ spc' = "done" /\ connClosed' = TRUE
               /\ ret' = errorAfterReply(w.err, "dial error")
               /\ UNCHANGED <<target, tun>>
       \/ \E local \in TargetLocals :
            LET resp == socks4ConnectGranted(local)
                w == ConnWrite(Socks4Response_MarshalBinary(resp), wok)
                open == [st |-> "open", local |-> local, wclosed |-> FALSE]
            IN /\ trace' = trace \o <<DialEv(req.Addr, TRUE, NoDialError),
                                      WriteEv("Socks4Response", resp.Status, resp.Addr,
                                              ~w.err, w.b)>>
               /\ s2c' = Sent(s2c, w)
               /\ IF w.err
                  THEN /\ spc' = "done" /\ connClosed' = TRUE /\ ret' = "write error"
                       /\ target' = ClosedTarget(open)
                       /\ tun' = tun
                  ELSE /\ spc' = "tunnel" /\ target' = open /\ tun' = StartedTunnel
                       /\ UNCHANGED <<ret, connClosed>>
  /\ UNCHANGED <<cfg, h, rbuf, req, c2s, cEnd, bind, dialVars, funVars, conn2>>

\* the replies of socks4Handler.handleBind
socks4BindRejected == [Status |-> Socks4StatusRejected, Addr |-> EmptyAddr]

socks4BindListening(laddr) == [Status |-> Socks4StatusGranted, Addr |-> laddr]

socks4BindGranted == [Status |-> Socks4StatusGranted, Addr |-> EmptyAddr]

\* socks4Handler.handleBind: h.listener.Listen on a nil listener field panics
S4BindListen ==
  /\ spc = "s4_bind"
  /\ IF h.listener = "nil"
     THEN /\ spc' = "panic" /\ ret' = "panic" /\ connClosed' = TRUE
          /\ trace' = Append(trace, SimpleEv("panic", FALSE))
          /\ UNCHANGED <<s2c, bind>>
     ELSE \E lok \in BOOLEAN, wok \in BOOLEAN :
            LET resp == IF lok THEN socks4BindListening(ListenAddr) ELSE socks4BindRejected
                w == ConnWrite(Socks4Response_MarshalBinary(resp), wok)
            IN /\ trace' = trace \o <<AddrEv("listen", IF lok THEN ListenAddr ELSE EmptyAddr, lok),
                                      WriteEv("Socks4Response", resp.Status, resp.Addr, ~w.err, w.b)>>
               /\ s2c' = Sent(s2c, w)
               /\ bind' = IF lok THEN [bind EXCEPT !.lst = "open", !.laddr = ListenAddr]
                          ELSE bind
               /\ IF lok /\ ~w.err
                  THEN spc' = "s4_accept" /\ UNCHANGED <<ret, connClosed>>
                  ELSE /\ spc' = "done" /\ connClosed' = TRUE
                       /\ ret' = IF lok THEN "write error"
                                 ELSE errorAfterReply(w.err, "listen error")
  /\ UNCHANGED <<cfg, h, rbuf, req, c2s, cEnd, target, tun, dialVars, funVars, conn2>>

\* socks4Handler.handleBind from listener.Accept() on
S4BindAccept ==
  /\ spc = "s4_accept"
  /\ \E aok \in BOOLEAN, wok \in BOOLEAN, peer \in Peers :
       LET match == checkIPAddr(req.Addr, peer)
           resp == IF aok /\ match THEN socks4BindGranted ELSE socks4BindRejected
           w == ConnWrite(Socks4Response_MarshalBinary(resp), wok)
           wev == WriteEv("Socks4Response", resp.Status, resp.Addr, ~w.err, w.b)
           conn == [st |-> "open", local |-> bind.laddr, wclosed |-> FALSE]
       IN IF ~aok
          THEN /\ trace' = trace \o <<AddrEv("accept", EmptyAddr, FALSE), SimpleEv("panic", FALSE)>>
               /\ spc' = "panic" /\ ret' = "panic" /\ connClosed' = TRUE
               /\ UNCHANGED <<s2c, bind, target, tun>>
          ELSE /\ bind' = [bind EXCEPT !.lst = "closed", !.paddr = peer]
               /\ trace' = trace \o <<AddrEv("accept", peer, TRUE), wev>>
               /\ s2c' = Sent(s2c, w)
               /\ IF ~match
                  THEN /\ target' = ClosedTarget(conn)
                       /\ spc' = "done" /\ connClosed' = TRUE
                       /\ ret' = errorAfterReply(w.err, "ip mismatch")
                       /\ tun' = tun
                  ELSE /\ target' = conn
                       /\ IF w.err
                          THEN /\ spc' = "done" /\ connClosed' = TRUE
                               /\ ret' = "write error"
                               /\ tun' = tun
                          ELSE /\ spc' = "tunnel" /\ tun' = StartedTunnel
                               /\ UNCHANGED <<ret, connClosed>>
  /\ UNCHANGED <<cfg, h, rbuf, req, c2s, cEnd, dialVars, funVars, conn2>>

(***************************************************************************)
(* Conn.Tunnel: two proxy goroutines report to errCh (capacity 2).         *)
(***************************************************************************)
DataChunk == <<100>>

\* mutant: the EOF of the source is reported as an error
ioCopyResult_eofIsError(eof, dir) == IF dir = "up" THEN "up error" ELSE "down error"

\* the error of io.Copy(dst, src) that proxy sends to errCh: nil when the
\* source ended with EOF, else the read or write error of that direction
ioCopyResult(eof, dir) ==
  IF eof THEN "nil" ELSE IF dir = "up" THEN "up error" ELSE "down error"

\* mutant: Tunnel returns with the first value it receives, nil included
tunnelReturns_firstReceive(e, got) == TRUE

\* the receive loop of Tunnel returns with e: e is an error, or e is the
\* second value received
tunnelReturns(e, got) == e # "nil" \/ got = 1

\* the capacity of errCh: make(chan error, 2)
ErrChCap == 2

\* mutant: errCh is unbuffered, a send needs Tunnel to be receiving
errChAccepts_unbuffered(ch, receiving) == ch = <<>> /\ receiving

\* errCh <- err does not block: the buffer of errCh has room
errChAccepts(ch, receiving) == Len(ch) < ErrChCap

\* proxy(target, c.reader, errCh): one round of io.Copy, or its end followed
\* by CloseWrite on the target and the send to errCh
ProxyUp ==
  /\ tun.up = "copy"
  /\ ConnReadable
  /\ \E wok \in BOOLEAN :
       LET rd == ConnRead
           wfail == ~wok \/ target.st # "open" \/ target.wclosed
       IN /\ rbuf' = <<>>
          /\ c2s' = rd.c2s
          /\ IF ~rd.err /\ ~wfail
             THEN /\ tun' = [tun EXCEPT !.nup = @ + 1]
                  /\ trace' = Append(trace, Ev("relay", "up", 0, EmptyAddr, TRUE, rd.p))
                  /\ target' = target
             ELSE LET eof == rd.err /\ cEnd = "eof" /\ ~connClosed
                      e == ioCopyResult(eof, "up")
                  IN /\ errChAccepts(tun.errCh, spc = "tunnel")
                     /\ tun' = [tun EXCEPT !.up = "done", !.errCh = Append(@, e)]
                     /\ trace' = Append(trace, Ev("copyend", "up", 0, EmptyAddr, eof, <<>>))
                     /\ target' = IF target.st = "open"
                                  THEN [target EXCEPT !.wclosed = TRUE] ELSE target
  /\ UNCHANGED <<cfg, h, spc, ret, req, cEnd, s2c, connClosed, bind, dialVars, funVars, conn2>>

\* proxy(c.writer, target, errCh): the target delivers data, ends or fails
ProxyDown ==
  /\ tun.down = "copy"
  /\ \E out \in {"data", "eof", "error"}, wok \in BOOLEAN :
       /\ out = "data" => tun.ndown < MaxRelay
       /\ target.st # "open" => out = "error"
       /\ IF out = "data" /\ wok /\ ~connClosed
          THEN /\ tun' = [tun EXCEPT !.ndown = @ + 1]
               /\ s2c' = Append(s2c, DataChunk)
               /\ trace' = Append(trace, Ev("relay", "down", 0, EmptyAddr, TRUE, DataChunk))
          ELSE LET e == ioCopyResult(out = "eof", "down")
               IN /\ errChAccepts(tun.errCh, spc = "tunnel")
                  /\ tun' = [tun EXCEPT !.down = "done", !.errCh = Append(@, e),
                                        !.cwclosed = TRUE]
                  /\ s2c' = s2c
                  /\ trace' = Append(trace, Ev("copyend", "down", 0, EmptyAddr, out = "eof", <<>>))
  /\ UNCHANGED <<cfg, h, spc, ret, rbuf, req, c2s, cEnd, connClosed, target,
                 bind, dialVars, funVars, conn2>>

\* the receive loop of Tunnel, and the return of the handler with the
\* deferred target.Close() and conn.Close()
TunnelRecv ==
  /\ spc = "tunnel"
  /\ tun.errCh # <<>>
  /\ LET e == Head(tun.errCh)
         last == tunnelReturns(e, tun.got)
     IN /\ tun' = [tun EXCEPT !.errCh = Tail(@), !.got = @ + 1]
        /\ IF last
           THEN /\ spc' = "done" /\ connClosed' = TRUE
                /\ ret' = e
                /\ target' = IF req.CMD = ConnectCommand
                             THEN ClosedTarget(target) ELSE target
                /\ trace' = Append(trace, SimpleEv("tunnelret", e = "nil"))
           ELSE UNCHANGED <<spc, connClosed, ret, target, trace>>
  /\ UNCHANGED <<cfg, h, rbuf, req, c2s, cEnd, s2c, bind, dialVars, funVars, conn2>>

(***************************************************************************)
(* The client of a server session, when no dialer of this library is the   *)
(* peer: it sends one segment whenever the server waits for input.         *)
(***************************************************************************)
UserU == <<117>>

\* "abcd"
UserABCD == <<97, 98, 99, 100>>

PassP == <<112>>

PassWrong == <<119>>

DstV4 == MkAddr("ip4", <<127, 0, 0, 1>>, 8080)

DstName == MkAddr("name", <<104, 111>>, 8080)

\* "[::1]:8080"
DstV6 == MkAddr("ip6", <<0, 0, 0, 0, 0, 0, 0, 0, 0, 0, 0, 0, 0, 0, 0, 1>>, 8080)

\* fe80::9, a link-local destination
DstV6LinkLocal == MkAddr("ip6", <<254, 128, 0, 0, 0, 0, 0, 0, 0, 0, 0, 0, 0, 0, 0, 9>>, 8080)

OtherCommand == 9

ClientMethodLists == {<<AuthMethodNotRequired>>, <<AuthMethodUsernamePassword>>,
                      <<AuthMethodNotRequired, AuthMethodUsernamePassword>>,
                      <<AuthMethodUsernamePassword, AuthMethodNotRequired>>,
                      <<AuthMethodGSSAPI>>, <<>>}

ClientCommands == {ConnectCommand, BindCommand, AssociateCommand, OtherCommand}

ClientChunks ==
  {MethodSelectRequest_MarshalBinary([Methods |-> ms]).b : ms \in ClientMethodLists}
  \cup {UsernamePasswordAuthRequest_MarshalBinary([Username |-> UserU, Password |-> pw]).b :
          pw \in {PassP, PassWrong}}
  \cup {Socks5Request_MarshalBinary([CMD |-> c, Addr |-> DstV4]).b : c \in ClientCommands}
  \cup {Socks5Request_MarshalBinary([CMD |-> BindCommand, Addr |-> DstV6LinkLocal]).b}
  \cup {Socks4Request_MarshalBinary([CMD |-> c, Addr |-> DstV4, UserID |-> <<>>]).b :
          c \in ClientCommands}
  \cup {Socks4Request_MarshalBinary([CMD |-> ConnectCommand, Addr |-> DstName,
                                     UserID |-> UserU]).b}
  \cup {<<Socks5Version>>, <<OtherCommand>>, DataChunk}

\* the server is blocked in a read of the client stream
ServerAwaitsClient ==
  /\ rbuf = <<>> /\ c2s = <<>> /\ cEnd = "open" /\ ~connClosed
  /\ \/ spc \in {"peek", "s5_greet", "s5_request", "s4_handle"}
     \/ spc = "s5_auth" /\ h.authenticate = "userpass"
     \/ tun.up = "copy"

ClientSend ==
  /\ ServerAwaitsClient
  /\ tun.up = "copy" => tun.nup < MaxRelay
  /\ \E chunk \in ClientChunks :
       /\ tun.up = "copy" => chunk = DataChunk
       /\ c2s' = <<chunk>>
  /\ UNCHANGED <<srvVars, cEnd, s2c, dialVars, funVars, conn2>>

ClientClose ==
  /\ ServerAwaitsClient
  /\ \E e \in {"eof", "reset"} : cEnd' = e
  /\ UNCHANGED <<srvVars, c2s, s2c, dialVars, funVars, conn2>>

(***************************************************************************)
(* Specification of one server session.                                    *)
(***************************************************************************)
\* New(addr, optFns...): Dialer and Listener default to the net package's,
\* AuthMethods to [AuthMethodNotRequired]; the option functions may set the rest
ServerConfig(am, au, id) ==
  [authMethods |-> am, authenticate |-> au, user |-> UserU, pass |-> PassP,
   ident |-> id, listener |-> "net"]

ServerConfigs ==
  {ServerConfig(<<AuthMethodNotRequired>>, "nil", "nil"),
   ServerConfig(<<AuthMethodNotRequired>>, "nil", "set"),
   ServerConfig(<<AuthMethodNotRequired>>, "custom", "nil"),
   ServerConfig(<<AuthMethodUsernamePassword>>, "userpass", "nil"),
   ServerConfig(<<AuthMethodUsernamePassword, AuthMethodNotRequired>>, "userpass", "nil"),
   ServerConfig(<<AuthMethodUsernamePassword>>, "custom", "nil"),
   ServerConfig(<<>>, "nil", "nil")}

NoArguments == [offered |-> <<>>, supported |-> <<>>]

IdleDialer == [authMethods |-> <<>>, authenticate |-> "nil", user |-> <<>>, pass |-> <<>>]

InitCommon ==
  /\ ret = "running"
  /\ rbuf = <<>>
  /\ c2s = <<>>
  /\ cEnd = "open"
  /\ s2c = <<>>
  /\ connClosed = FALSE
  /\ target = NoTarget
  /\ tun = NoTunnel
  /\ trace = <<>>
  /\ bind = NoBind
  /\ dbuf = <<>>
  /\ dClosed = FALSE
  /\ conn2 = "none"

Init ==
  /\ InitCommon
  /\ h = NoHandler
  /\ req = NoRequest
  /\ spc = "peek"
  /\ cfg \in ServerConfigs
  /\ dcfg = IdleDialer
  /\ dpc = "idle"
  /\ dret = "running"
  /\ fin = NoArguments
  /\ fout = <<>>

ServerStep ==
  \/ HandleConnection
  \/ S5Greet
  \/ S5AuthUserPass
  \/ S5AuthCustom
  \/ S5Request
  \/ S5Connect
  \/ S5BindListen
  \/ S4Handle
  \/ S4Connect
  \/ S4BindListen
  \/ ProxyUp
  \/ ProxyDown
  \/ TunnelRecv

Next ==
  \/ ServerStep
  \/ ClientSend
  \/ ClientClose

Spec == Init /\ [][Next]_vars

(***************************************************************************)
(* Specification of a Server that serves a second connection next to the   *)
(* session above.  Serve starts one goroutine per accepted connection; the *)
(* goroutines share the Server's logger, dialer and option values, which   *)
(* no handler writes.  The second goroutine is kept as its position only:  *)
(* it returns, with or without an error, or it panics, which it does when  *)
(* its client asks for BIND (h.listener is nil).  There is no recover, so  *)
(* the panic ends the process and with it every other session.             *)
(***************************************************************************)
\* the process has not ended
ProcessRuns == spc \notin {"panic", "killed"} /\ conn2 # "panicked"

\* what the exit of the process does to a tunnel: both copy goroutines end
KilledTunnel(t) ==
  [t EXCEPT !.up = IF @ = "copy" THEN "killed" ELSE @,
            !.down = IF @ = "copy" THEN "killed" ELSE @]

\* an unrecovered panic in another goroutine: a session that runs is ended
panicEffect(position) ==
  IF position \in {"done", "panic", "killed"} THEN position ELSE "killed"

\* Serve: l.Accept() returns a second connection, go handleConnection(conn)
OtherAccept ==
  /\ conn2 = "none"
  /\ ProcessRuns
  /\ conn2' = "serving"
  /\ UNCHANGED <<srvVars, c2s, cEnd, s2c, dialVars, funVars>>

\* handleConnection of the second connection returns; Serve logs its error
OtherReturn ==
  /\ conn2 = "serving"
  /\ ProcessRuns
  /\ conn2' = "returned"
  /\ UNCHANGED <<srvVars, c2s, cEnd, s2c, dialVars, funVars>>

\* handleBind of the second connection calls Listen on the nil listener
OtherPanic ==
  /\ conn2 = "serving"
  /\ ProcessRuns
  /\ conn2' = "panicked"
  /\ spc' = panicEffect(spc)
  /\ IF spc' = "killed"
     THEN /\ ret' = "process exit"
          /\ connClosed' = TRUE
          /\ target' = ClosedTarget(target)
          /\ tun' = KilledTunnel(tun)
          /\ bind' = IF bind.lst = "open" THEN [bind EXCEPT !.lst = "closed"] ELSE bind
          /\ trace' = Append(trace, SimpleEv("exit", FALSE))
     ELSE UNCHANGED <<ret, connClosed, target, tun, bind, trace>>
  /\ UNCHANGED <<cfg, h, rbuf, req, c2s, cEnd, s2c, dialVars, funVars>>

\* the owner of the server closes the listener it gave to Serve, the one
\* signal to stop that the API has: l.Accept() returns an error and Serve
\* returns it.  The handlers run with context.Background() and Tunnel takes
\* no context, so nothing reaches the sessions that are being served.
ServeStop ==
  /\ conn2 = "none"
  /\ ProcessRuns
  /\ conn2' = "stopped"
  /\ trace' = Append(trace, SimpleEv("cancel", TRUE))
  /\ UNCHANGED <<cfg, h, spc, ret, rbuf, req, connClosed, target, tun, bind,
                 c2s, cEnd, s2c, dialVars, funVars>>

\* the server New() builds, with any of the options; no second connection yet
InitServe ==
  /\ Init
  /\ conn2 = "none"

NextServe ==
  \/ ServerStep
  \/ ClientSend
  \/ ClientClose
  \/ OtherAccept
  \/ OtherReturn
  \/ OtherPanic
  \/ ServeStop

SpecServe == InitServe /\ [][NextServe]_vars

\* the served connection with the scheduling of Go: a goroutine that can
\* run does run, so the copies and the receive loop of Tunnel take their steps
SpecLive ==
  /\ Init
  /\ [][Next]_vars
  /\ WF_vars(ProxyUp)
  /\ WF_vars(ProxyDown)
  /\ WF_vars(TunnelRecv)

(***************************************************************************)
(* Specification of a served connection whose stream segments the octets   *)
(* of the client otherwise than message by message: one underlying read    *)
(* returns a part of a message, or a message and what follows it.          *)
(***************************************************************************)
\* what the client writes, as the segments the underlying reads return
SegmentedSends ==
  LET greet == MethodSelectRequest_MarshalBinary([Methods |-> <<AuthMethodNotRequired>>]).b
      request == Socks5Request_MarshalBinary([CMD |-> ConnectCommand, Addr |-> DstV4]).b
      request4 == Socks4Request_MarshalBinary([CMD |-> ConnectCommand, Addr |-> DstV4,
                                               UserID |-> UserU]).b
  IN {<<Take(greet, 1), Drop(greet, 1)>>,
      <<Take(request, 4), Drop(request, 4)>>,
      <<Take(request4, 2), Drop(request4, 2)>>,
      <<greet \o request>>,
      <<request \o DataChunk>>,
      <<request4 \o DataChunk>>}

\* the peer writes while the server is blocked in a read of the handshake
ClientSendSegments ==
  /\ ServerAwaitsClient
  /\ tun.up # "copy"
  /\ \E segments \in SegmentedSends : c2s' = segments
  /\ UNCHANGED <<srvVars, cEnd, s2c, dialVars, funVars, conn2>>

NextSegment == Next \/ ClientSendSegments

SpecSegment == Init /\ [][NextSegment]_vars

(***************************************************************************)
(* Specification of selectAuthMethod as a function of its two lists.       *)
(***************************************************************************)
SeqsUpTo(S, n) == UNION {[1..k -> S] : k \in 0..n}

\* the methods a client can list, the sentinel 0xff among them
OfferedMethods == {AuthMethodNotRequired, AuthMethodGSSAPI, AuthMethodUsernamePassword,
                   AuthMethodNoAcceptableMethods}

\* the methods Options.AuthMethods is configured with
SupportedMethods == {AuthMethodNotRequired, AuthMethodGSSAPI, AuthMethodUsernamePassword}

SupportedLists == SeqsUpTo(SupportedMethods, MaxSupported)

InitSelect ==
  /\ InitCommon
  /\ h = NoHandler
  /\ req = NoRequest
  /\ cfg = ServerConfig(<<AuthMethodNotRequired>>, "nil", "nil")
  /\ spc = "done"
  /\ dcfg = IdleDialer
  /\ dpc = "idle"
  /\ dret = "running"
  /\ fin \in [offered : SeqsUpTo(OfferedMethods, MaxOffered), supported : SupportedLists]
  /\ fout = <<>>

\* method := h.selectAuthMethod(methodSelectReq.Methods)
SelectAuthMethod ==
  /\ fout = <<>>
  /\ fout' = <<selectAuthMethod(fin.offered, fin.supported)>>
  /\ UNCHANGED <<srvVars, c2s, cEnd, s2c, dialVars, fin, conn2>>

NextSelect == SelectAuthMethod

SpecSelect == InitSelect /\ [][NextSelect]_vars

(***************************************************************************)
(* Specification of the codec: a message is marshalled, and what was       *)
(* marshalled is unmarshalled into a fresh message of the same type.       *)
(***************************************************************************)
\* "0.0.0.7:8080", an IPv4 literal of the form that SOCKS4a gives to names
DstV4Low == MkAddr("ip4", <<0, 0, 0, 7>>, 8080)

\* "10.0.0.9:1" and "localhost:65535" in short: the ends of the port range
DstV4Port1 == MkAddr("ip4", <<10, 0, 0, 9>>, 1)

DstNameMaxPort == MkAddr("name", <<108, 104>>, 65535)

CodecAddrs == {DstV4, DstV4Low, DstV4Port1, DstName, DstNameMaxPort}

CodecUserIDs == {<<>>, UserU, UserABCD}

Socks4Statuses == {Socks4StatusGranted, Socks4StatusRejected, Socks4StatusNoIdentd,
                   Socks4StatusInvalidUserID}

\* "[::ffff:10.0.0.9]:8080", an IPv6 literal of an IPv4-mapped address
DstV4Mapped == MkAddr("ip6", <<0, 0, 0, 0, 0, 0, 0, 0, 0, 0, 255, 255, 10, 0, 0, 9>>, 8080)

\* "ho:0" and "ho:65536": ports that strconv.ParseUint or the range check refuse
DstPort0 == MkAddr("name", <<104, 111>>, 0)

DstPortOver == MkAddr("name", <<104, 111>>, 65536)

\* a name of n octets 'a', port 8080
LongName(n) == MkAddr("name", [i \in 1..n |-> 97], 8080)

\* the longest name a length octet can announce
MaxFQDN == 255

Socks5Addrs == {DstV4, DstV4Port1, DstV6, DstV6LinkLocal, DstV4Mapped, DstName,
                DstNameMaxPort, DstPort0, DstPortOver, LongName(MaxFQDN),
                LongName(MaxFQDN + 1)}

Socks5Statuses == {Socks5StatusGranted, Socks5StatusFailure, Socks5StatusConnectionRefused,
                   Socks5StatusAddrTypeNotSupported}

\* the messages of the codec tests and of the handlers
CodecMessages ==
  {[type |-> "Socks4Request", msg |-> [CMD |-> c, Addr |-> a, UserID |-> u]] :
     c \in {ConnectCommand, BindCommand, AssociateCommand}, a \in CodecAddrs,
     u \in CodecUserIDs}
  \cup {[type |-> "Socks4Response", msg |-> [Status |-> st, Addr |-> a]] :
          st \in Socks4Statuses, a \in CodecAddrs \cup {EmptyAddr, LocalV6}}
  \cup {[type |-> "Socks5Request", msg |-> [CMD |-> c, Addr |-> a]] :
          c \in {ConnectCommand, BindCommand, AssociateCommand}, a \in Socks5Addrs}
  \cup {[type |-> "Socks5Response", msg |-> [Status |-> st, Addr |-> a]] :
          st \in Socks5Statuses, a \in Socks5Addrs \cup {EmptyAddr}}
  \cup {[type |-> "MethodSelectRequest", msg |-> [Methods |-> ms]] :
          ms \in ClientMethodLists}
  \cup {[type |-> "MethodSelectResponse", msg |-> [Method |-> m]] :
          m \in {AuthMethodNotRequired, AuthMethodUsernamePassword,
                 AuthMethodNoAcceptableMethods}}
  \cup {[type |-> "UsernamePasswordAuthRequest", msg |-> [Username |-> u, Password |-> pw]] :
          u \in {UserU, UserABCD}, pw \in {PassP, PassWrong}}
  \cup {[type |-> "UsernamePasswordAuthResponse", msg |-> [Status |-> st]] :
          st \in {AuthStatusSuccess, AuthStatusFailure}}

\* msg.MarshalBinary() of a message of the given type
MarshalBinary(type, msg) ==
  CASE type = "Socks4Request" -> Socks4Request_MarshalBinary(msg)
    [] type = "Socks4Response" -> Socks4Response_MarshalBinary(msg)
    [] type = "Socks5Request" -> Socks5Request_MarshalBinary(msg)
    [] type = "Socks5Response" -> Socks5Response_MarshalBinary(msg)
    [] type = "MethodSelectRequest" -> MethodSelectRequest_MarshalBinary(msg)
    [] type = "MethodSelectResponse" -> MethodSelectResponse_MarshalBinary(msg)
    [] type = "UsernamePasswordAuthRequest" -> UsernamePasswordAuthRequest_MarshalBinary(msg)
    [] type = "UsernamePasswordAuthResponse" -> UsernamePasswordAuthResponse_MarshalBinary(msg)

\* (&T{}).UnmarshalBinary(p): the error, whether the call panicked, and the
\* fields of the message
UnmarshalBinary(type, p) ==
  CASE type = "Socks4Request" ->
         LET m == Socks4Request_UnmarshalBinary(p)
         IN [err |-> m.err, panic |-> FALSE,
             msg |-> [CMD |-> m.CMD, Addr |-> m.Addr, UserID |-> m.UserID]]
    [] type = "Socks4Response" ->
         LET m == Socks4Response_UnmarshalBinary(p)
         IN [err |-> m.err, panic |-> m.panic, msg |-> [Status |-> m.Status, Addr |-> m.Addr]]
    [] type = "Socks5Request" ->
         LET m == Socks5Request_UnmarshalBinary(p)
         IN [err |-> m.err, panic |-> FALSE, msg |-> [CMD |-> m.CMD, Addr |-> m.Addr]]
    [] type = "Socks5Response" ->
         LET m == Socks5Response_UnmarshalBinary(p)
         IN [err |-> m.err, panic |-> FALSE, msg |-> [Status |-> m.Status, Addr |-> m.Addr]]
    [] type = "MethodSelectRequest" ->
         LET m == MethodSelectRequest_UnmarshalBinary(p)
         IN [err |-> m.err, panic |-> FALSE, msg |-> [Methods |-> m.Methods]]
    [] type = "MethodSelectResponse" ->
         LET m == MethodSelectResponse_UnmarshalBinary(p)
         IN [err |-> m.err, panic |-> FALSE, msg |-> [Method |-> m.Method]]
    [] type = "UsernamePasswordAuthRequest" ->
         LET m == UsernamePasswordAuthRequest_UnmarshalBinary(p)
         IN [err |-> m.err, panic |-> FALSE,
             msg |-> [Username |-> m.Username, Password |-> m.Password]]
    [] type = "UsernamePasswordAuthResponse" ->
         LET m == UsernamePasswordAuthResponse_UnmarshalBinary(p)
         IN [err |-> m.err, panic |-> FALSE, msg |-> [Status |-> m.Status]]

InitCodec ==
  /\ InitCommon
  /\ h = NoHandler
  /\ req = NoRequest
  /\ spc = "done"
  /\ cfg = ServerConfig(<<AuthMethodNotRequired>>, "nil", "nil")
  /\ dcfg = IdleDialer
  /\ dpc = "idle"
  /\ dret = "running"
  /\ fin \in CodecMessages
  /\ fout = <<>>

\* b, err := msg.MarshalBinary()
Marshal ==
  /\ fout = <<>>
  /\ fout' = <<MarshalBinary(fin.type, fin.msg)>>
  /\ UNCHANGED <<srvVars, c2s, cEnd, s2c, dialVars, fin, conn2>>

\* err := msg2.UnmarshalBinary(b)
Unmarshal ==
  /\ Len(fout) = 1
  /\ ~fout[1].err
  /\ fout' = Append(fout, UnmarshalBinary(fin.type, fout[1].b))
  /\ UNCHANGED <<srvVars, c2s, cEnd, s2c, dialVars, fin, conn2>>

\* err := msg2.UnmarshalBinary(b[:k]), for a proper prefix of what was marshalled
UnmarshalTruncated ==
  /\ Len(fout) = 1
  /\ ~fout[1].err
  /\ \E k \in 0..(Len(fout[1].b) - 1) :
       LET p == Take(fout[1].b, k)
       IN fout' = <<fout[1], [err |-> FALSE, b |-> p], UnmarshalBinary(fin.type, p)>>
  /\ UNCHANGED <<srvVars, c2s, cEnd, s2c, dialVars, fin, conn2>>

NextCodec == Marshal \/ Unmarshal \/ UnmarshalTruncated

SpecCodec == InitCodec /\ [][NextCodec]_vars

(***************************************************************************)
(* Specification of a Socks5Dialer calling a server.                       *)
(***************************************************************************)
RECURSIVE Concat(_)
Concat(ss) == IF ss = <<>> THEN <<>> ELSE Head(ss) \o Concat(Tail(ss))

\* the dialer's Conn has something to return from Read
DialerReadable == s2c # <<>> \/ connClosed

\* Conn.Read of the dialer up to its UnmarshalBinary call: one Read returns
\* what has arrived, the first n segments of the stream as one slice
DialerRead(n) ==
  IF s2c # <<>> /\ ~dClosed
  THEN [err |-> FALSE, p |-> Concat(Take(s2c, n)), s2c |-> Drop(s2c, n)]
  ELSE [err |-> TRUE, p |-> <<>>, s2c |-> s2c]

\* Socks5DialerOptions after the option functions ran
DialerConfig(am, au, pw) == [authMethods |-> am, authenticate |-> au, user |-> UserU, pass |-> pw]

DialerConfigs ==
  {DialerConfig(am, au, pw) :
     am \in {<<AuthMethodUsernamePassword>>, <<AuthMethodNotRequired>>,
             <<AuthMethodNotRequired, AuthMethodUsernamePassword>>},
     au \in {"userpass", "nil"},
     pw \in {PassP, PassWrong}}

\* what the dialer does on its Conn: a Write of a message of type t, a Read
\* of a message of type t with the value v decoded from it
DialerWriteEv(t, w) == Ev("dwrite", t, 0, EmptyAddr, ~w.err, w.b)

DialerReadEv(t, v, ok, b) == Ev("dread", t, v, EmptyAddr, ok, b)

\* the call of d.authenticate with the selected method, and its return
DialerAuthCall(method) == Ev("dauthcall", "", method, EmptyAddr, TRUE, <<>>)

DialerAuthReturn(ok) == Ev("dauthret", "", 0, EmptyAddr, ok, <<>>)

\* mutant: the selection of no method is not looked at
dialerAfterSelect_noCheck(method, authenticate) ==
  IF authenticate # "nil" THEN "authenticate" ELSE "request"

\* DialContext after the MethodSelectResponse was read: fail on
\* NoAcceptable, call the authenticator when there is one, else write the
\* Socks5Request
dialerAfterSelect(method, authenticate) ==
  IF method = AuthMethodNoAcceptableMethods THEN "fail"
  ELSE IF authenticate # "nil" THEN "authenticate"
  ELSE "request"

\* the Socks5Request of DialContext
DialerRequest == Socks5Request_MarshalBinary([CMD |-> ConnectCommand, Addr |-> DstV4])

\* DialContext: proxyDialer.DialContext, then the write of the MethodSelectRequest
D5Start ==
  /\ dpc = "start"
  /\ \E dok \in BOOLEAN, wok \in BOOLEAN :
       LET w == ConnWrite(MethodSelectRequest_MarshalBinary([Methods |-> dcfg.authMethods]), wok)
       IN /\ IF ~dok
             THEN /\ dpc' = "done" /\ dret' = "proxy dial error"
                  /\ cEnd' = "reset"
                  /\ c2s' = c2s
                  /\ trace' = trace
             ELSE /\ c2s' = Sent(c2s, w)
                  /\ cEnd' = cEnd
                  /\ trace' = Append(trace, DialerWriteEv("MethodSelectRequest", w))
                  /\ IF w.err
                     THEN dpc' = "done" /\ dret' = "write error"
                     ELSE dpc' = "greet" /\ dret' = dret
  /\ UNCHANGED <<cfg, h, spc, ret, rbuf, req, connClosed, target, tun, bind,
                 s2c, dcfg, dbuf, dClosed, funVars, conn2>>

\* DialContext from the read of the MethodSelectResponse to the write of the
\* Socks5Request, or to the write of the authenticator
D5Greet ==
  /\ dpc = "greet"
  /\ DialerReadable
  /\ \E n \in 1..Len(s2c) \cup {1}, wok \in BOOLEAN :
       LET rd == DialerRead(n)
           resp == MethodSelectResponse_UnmarshalBinary(rd.p)
           rok == ~(rd.err \/ resp.err)
           step == dialerAfterSelect(resp.Method, dcfg.authenticate)
           next == IF step = "authenticate"
                   THEN UsernamePasswordAuthRequest_MarshalBinary(
                          [Username |-> dcfg.user, Password |-> dcfg.pass])
                   ELSE DialerRequest
           w == ConnWrite(next, wok)
           readEv == DialerReadEv("MethodSelectResponse", IF rok THEN resp.Method ELSE 0,
                                  rok, rd.p)
       IN /\ s2c' = rd.s2c
          /\ IF ~rok
             THEN /\ dpc' = "done" /\ dret' = "read error"
                  /\ trace' = Append(trace, readEv)
                  /\ UNCHANGED <<c2s, cEnd, dClosed>>
             ELSE IF step = "fail"
             THEN /\ dpc' = "done" /\ dret' = "no authentication method accepted"
                  /\ dClosed' = TRUE /\ cEnd' = "eof"
                  /\ c2s' = c2s
                  /\ trace' = Append(trace, readEv)
             ELSE /\ c2s' = Sent(c2s, w)
                  /\ UNCHANGED <<cEnd, dClosed>>
                  /\ trace' = trace \o
                       (IF step = "authenticate"
                        THEN <<readEv, DialerAuthCall(resp.Method),
                               DialerWriteEv("UsernamePasswordAuthRequest", w)>>
                             \o (IF w.err THEN <<DialerAuthReturn(FALSE)>> ELSE <<>>)
                        ELSE <<readEv, DialerWriteEv("Socks5Request", w)>>)
                  /\ IF w.err
                     THEN dpc' = "done" /\ dret' = "write error"
                     ELSE /\ dpc' = IF step = "authenticate" THEN "auth" ELSE "reply"
                          /\ dret' = dret
  /\ UNCHANGED <<cfg, h, spc, ret, rbuf, req, connClosed, target, tun, bind,
                 dcfg, dbuf, funVars, conn2>>

\* userPassDialerAuthenticateFuncGen(user, pass) from its read on, and the
\* write of the Socks5Request that follows its nil
D5Auth ==
  /\ dpc = "auth"
  /\ DialerReadable
  /\ \E n \in 1..Len(s2c) \cup {1}, wok \in BOOLEAN :
       LET rd == DialerRead(n)
           authResp == UsernamePasswordAuthResponse_UnmarshalBinary(rd.p)
           rok == ~(rd.err \/ authResp.err)
           w == ConnWrite(DialerRequest, wok)
           readEv == DialerReadEv("UsernamePasswordAuthResponse",
                                  IF rok THEN authResp.Status ELSE 0, rok, rd.p)
       IN /\ s2c' = rd.s2c
          /\ IF ~rok
             THEN /\ dpc' = "done" /\ dret' = "read error" /\ c2s' = c2s
                  /\ trace' = trace \o <<readEv, DialerAuthReturn(FALSE)>>
             ELSE IF authResp.Status # AuthStatusSuccess
             THEN /\ dpc' = "done" /\ dret' = "authentication failure" /\ c2s' = c2s
                  /\ trace' = trace \o <<readEv, DialerAuthReturn(FALSE)>>
             ELSE /\ c2s' = Sent(c2s, w)
                  /\ trace' = trace \o <<readEv, DialerAuthReturn(TRUE),
                                          DialerWriteEv("Socks5Request", w)>>
                  /\ IF w.err
                     THEN dpc' = "done" /\ dret' = "write error"
                     ELSE dpc' = "reply" /\ dret' = dret
  /\ UNCHANGED <<cfg, h, spc, ret, rbuf, req, connClosed, target, tun, bind,
                 cEnd, dcfg, dbuf, dClosed, funVars, conn2>>

\* DialContext from the read of the Socks5Response to its return
D5Reply ==
  /\ dpc = "reply"
  /\ DialerReadable
  /\ \E n \in 1..Len(s2c) \cup {1} :
       LET rd == DialerRead(n)
           resp == Socks5Response_UnmarshalBinary(rd.p)
       IN /\ s2c' = rd.s2c
          /\ IF rd.err \/ resp.err
             THEN dpc' = "done" /\ dret' = "read error"
             ELSE IF resp.Status # Socks5StatusGranted
             THEN dpc' = "done" /\ dret' = "socks error"
             ELSE dpc' = "stream" /\ dret' = "stream"
          \* the event keeps the octets that were read, the result and the
          \* status that the returned error names ("socks error: %v")
          /\ trace' = Append(trace,
                 Ev("dialret", dret',
                    IF ~(rd.err \/ resp.err) /\ resp.Status # Socks5StatusGranted
                    THEN resp.Status ELSE 0,
                    EmptyAddr, dret' = "stream", rd.p))
  /\ UNCHANGED <<cfg, h, spc, ret, rbuf, req, connClosed, target, tun, bind,
                 c2s, cEnd, dcfg, dbuf, dClosed, funVars, conn2>>

\* the caller of DialContext reads from the stream it was given
CallerRead ==
  /\ dpc = "stream"
  /\ s2c # <<>>
  /\ ~dClosed
  /\ s2c' = Tail(s2c)
  /\ trace' = Append(trace, Ev("recv", "caller", 0, EmptyAddr, TRUE, Head(s2c)))
  /\ UNCHANGED <<cfg, h, spc, ret, rbuf, req, connClosed, target, tun, c2s, cEnd,
                 bind, dialVars, funVars, conn2>>

\* the caller of DialContext writes to the stream it was given
CallerWrite ==
  /\ dpc = "stream"
  /\ ~dClosed
  /\ c2s = <<>>
  /\ tun.nup < MaxRelay
  /\ c2s' = <<DataChunk>>
  /\ UNCHANGED <<srvVars, cEnd, s2c, dialVars, funVars, conn2>>

\* the caller of DialContext closes the stream it was given
CallerClose ==
  /\ dpc = "stream"
  /\ ~dClosed
  /\ dClosed' = TRUE
  /\ cEnd' = "eof"
  /\ UNCHANGED <<srvVars, c2s, s2c, dcfg, dpc, dret, dbuf, funVars, conn2>>

\* the servers of the dialer tests: user name and password, with or without
\* the method that needs none
E2EServerConfigs ==
  {ServerConfig(<<AuthMethodUsernamePassword>>, "userpass", "nil"),
   ServerConfig(<<AuthMethodUsernamePassword, AuthMethodNotRequired>>, "userpass", "nil")}

InitE2E ==
  /\ InitCommon
  /\ h = NoHandler
  /\ req = NoRequest
  /\ spc = "peek"
  /\ cfg \in E2EServerConfigs
  /\ dcfg \in DialerConfigs
  /\ dpc = "start"
  /\ dret = "running"
  /\ fin = NoArguments
  /\ fout = <<>>

NextE2E ==
  \/ D5Start
  \/ D5Greet
  \/ D5Auth
  \/ D5Reply
  \/ CallerRead
  \/ CallerWrite
  \/ CallerClose
  \/ HandleConnection
  \/ S5Greet
  \/ S5AuthUserPass
  \/ S5Request
  \/ S5Connect
  \/ ProxyUp
  \/ ProxyDown
  \/ TunnelRecv

SpecE2E == InitE2E /\ [][NextE2E]_vars

(***************************************************************************)
(* Specification of a Socks5Dialer calling an external proxy, which may    *)
(* answer anything.                                                        *)
(***************************************************************************)
\* what the proxy may write to the dialer
ProxyChunks ==
  {MethodSelectResponse_MarshalBinary([Method |-> m]).b :
     m \in {AuthMethodNotRequired, AuthMethodGSSAPI, AuthMethodUsernamePassword,
            AuthMethodNoAcceptableMethods}}
  \cup {UsernamePasswordAuthResponse_MarshalBinary([Status |-> st]).b :
          st \in {AuthStatusSuccess, AuthStatusFailure}}
  \cup {Socks5Response_MarshalBinary([Status |-> Socks5StatusGranted, Addr |-> LocalV4]).b,
        Socks5Response_MarshalBinary([Status |-> Socks5StatusFailure, Addr |-> EmptyAddr]).b,
        DataChunk}

\* the external proxy writes while the dialer or its caller is blocked in a read
ProxySend ==
  /\ dpc \in {"greet", "auth", "reply", "stream"}
  /\ s2c = <<>>
  /\ ~dClosed
  /\ dpc = "stream" => Cardinality({i \in Events("recv") : trace[i].t = "caller"}) < MaxRelay
  /\ \E chunk \in ProxyChunks :
       /\ dpc = "stream" => chunk = DataChunk
       /\ s2c' = <<chunk>>
  /\ UNCHANGED <<srvVars, c2s, cEnd, dialVars, funVars, conn2>>

InitDialer ==
  /\ InitCommon
  /\ h = NoHandler
  /\ req = NoRequest
  /\ spc = "done"
  /\ cfg = ServerConfig(<<AuthMethodNotRequired>>, "nil", "nil")
  /\ dcfg \in DialerConfigs
  /\ dpc = "start"
  /\ dret = "running"
  /\ fin = NoArguments
  /\ fout = <<>>

NextDialer == D5Start \/ D5Greet \/ D5Auth \/ D5Reply \/ CallerRead \/ ProxySend

SpecDialer == InitDialer /\ [][NextDialer]_vars

(***************************************************************************)
(* Specification of a Socks4Dialer calling a server built by New().        *)
(***************************************************************************)

\* the addr argument of DialContext
Socks4Targets == {DstV4, DstName, DstV6}

\* Socks4DialerOptions.UserID
Socks4UserIDs == {<<>>, UserU, UserABCD}

\* NewSocks4Dialer after the option functions ran, and the addr it is to dial
Socks4DialerConfig(userID, addr) == [userID |-> userID, addr |-> addr]

Socks4DialerConfigs ==
  {Socks4DialerConfig(u, a) : u \in Socks4UserIDs, a \in Socks4Targets}

\* the Socks4Request of DialContext
Socks4DialerRequest ==
  Socks4Request_MarshalBinary([CMD |-> ConnectCommand, Addr |-> dcfg.addr,
                               UserID |-> dcfg.userID])

\* DialContext after the Socks4Response was read
socks4DialResult(status) ==
  IF status # Socks4StatusGranted THEN "socks error" ELSE "stream"

\* DialContext: proxyDialer.DialContext, then the write of the Socks4Request
D4Start ==
  /\ dpc = "start4"
  /\ \E dok \in BOOLEAN, wok \in BOOLEAN :
       LET w == ConnWrite(Socks4DialerRequest, wok)
       IN /\ IF ~dok
             THEN /\ dpc' = "done" /\ dret' = "proxy dial error"
                  /\ cEnd' = "reset"
                  /\ c2s' = c2s
                  /\ trace' = trace
             ELSE /\ c2s' = Sent(c2s, w)
                  /\ cEnd' = cEnd
                  /\ trace' = Append(trace, DialerWriteEv("Socks4Request", w))
                  /\ IF w.err
                     THEN dpc' = "done" /\ dret' = "write error"
                     ELSE dpc' = "reply4" /\ dret' = dret
  /\ UNCHANGED <<cfg, h, spc, ret, rbuf, req, connClosed, target, tun, bind,
                 s2c, dcfg, dbuf, dClosed, funVars, conn2>>

\* DialContext from the read of the Socks4Response to its return
D4Reply ==
  /\ dpc = "reply4"
  /\ DialerReadable
  /\ \E n \in 1..Len(s2c) \cup {1} :
       LET rd == DialerRead(n)
           resp == Socks4Response_UnmarshalBinary(rd.p)
           rok == ~rd.err /\ ~resp.err
           res == IF rok THEN socks4DialResult(resp.Status) ELSE "read error"
       IN /\ s2c' = rd.s2c
          /\ dret' = res
          /\ dpc' = IF res = "stream" THEN "stream" ELSE "done"
          /\ trace' = trace \o
               <<DialerReadEv("Socks4Response", IF rok THEN resp.Status ELSE 0, rok, rd.p),
                 Ev("dialret", res, IF res = "socks error" THEN resp.Status ELSE 0,
                    EmptyAddr, res = "stream", rd.p)>>
  /\ UNCHANGED <<cfg, h, spc, ret, rbuf, req, connClosed, target, tun, bind,
                 c2s, cEnd, dcfg, dbuf, dClosed, funVars, conn2>>

InitE2E4 ==
  /\ InitCommon
  /\ h = NoHandler
  /\ req = NoRequest
  /\ spc = "peek"
  /\ cfg = ServerConfig(<<AuthMethodNotRequired>>, "nil", "nil")
  /\ dcfg \in Socks4DialerConfigs
  /\ dpc = "start4"
  /\ dret = "running"
  /\ fin = NoArguments
  /\ fout = <<>>

NextE2E4 ==
  \/ D4Start
  \/ D4Reply
  \/ CallerRead
  \/ CallerWrite
  \/ CallerClose
  \/ HandleConnection
  \/ S4Handle
  \/ S4Connect
  \/ ProxyUp
  \/ ProxyDown
  \/ TunnelRecv

SpecE2E4 == InitE2E4 /\ [][NextE2E4]_vars

(***************************************************************************)
(* Specification of the version handlers with every field set.             *)
(* handleConnection leaves the listener and ident fields of the handlers   *)
(* nil, so that under Spec the ident callback is never invoked and         *)
(* handleBind ends in its first statement.  Here handle() is entered on a  *)
(* handler whose listener and ident fields hold what the Server holds, to  *)
(* reach the statements that use them.                                     *)
(***************************************************************************)
\* the handler structs with every field of their type set
FullSocks4Handler(s) ==
  [NewSocks4Handler(s) EXCEPT !.listener = s.listener, !.ident = s.ident]

FullSocks5Handler(s) == [NewSocks5Handler(s) EXCEPT !.listener = s.listener]

\* the servers of this specification: with and without an ident callback
HandlerConfigs ==
  {ServerConfig(<<AuthMethodNotRequired>>, "nil", "nil"),
   ServerConfig(<<AuthMethodNotRequired>>, "nil", "set")}

InitHandler ==
  /\ InitCommon
  /\ cfg \in HandlerConfigs
  /\ \/ h = FullSocks4Handler(cfg) /\ spc = "s4_handle"
     \/ h = FullSocks5Handler(cfg) /\ spc = "s5_greet"
  /\ req = NoRequest
  /\ dcfg = IdleDialer
  /\ dpc = "idle"
  /\ dret = "running"
  /\ fin = NoArguments
  /\ fout = <<>>

NextHandler ==
  \/ S4Handle
  \/ S4Connect
  \/ S4BindListen
  \/ S4BindAccept
  \/ S5Greet
  \/ S5Request
  \/ S5Connect
  \/ S5BindListen
  \/ S5BindAccept
  \/ ProxyUp
  \/ ProxyDown
  \/ TunnelRecv
  \/ ClientSend
  \/ ClientClose

SpecHandler == InitHandler /\ [][NextHandler]_vars

(***************************************************************************)
(* Properties of a server session (specification Spec).                    *)
(***************************************************************************)
\* Peek(1) delivered the first octet of the connection
Peeked == Len(trace) >= 1 /\ trace[1].e = "peek" /\ trace[1].ok

FirstByte == trace[1].b[1]

\* the message of type t was read and decoded
RequestRead(t) == \E i \in EventsOf("read", t) : trace[i].ok

Socks5ReadTypes == {"MethodSelectRequest", "UsernamePasswordAuthRequest", "Socks5Request"}

\* C1: the handler is chosen from the first octet alone: 0x04 runs the SOCKS4
\* handler, 0x05 the SOCKS5 handler; for any other first octet handleConnection
\* returns the unsupported-version error, has written nothing to the client,
\* has not dialed or listened, and the connection is closed.
C1_VersionDispatch ==
  Peeked =>
    /\ FirstByte = Socks4Version =>
         /\ h.ver = Socks4Version
         /\ \A i \in Events("read") : trace[i].t = "Socks4Request"
    /\ FirstByte = Socks5Version =>
         /\ h.ver = Socks5Version
         /\ \A i \in Events("read") : trace[i].t \in Socks5ReadTypes
    /\ FirstByte \notin {Socks4Version, Socks5Version} =>
         /\ h = NoHandler
         /\ spc = "done"
         /\ ret = "unsupported socks version"
         /\ connClosed
         /\ Len(trace) = 1
         /\ s2c = <<>>
         /\ target = NoTarget

C1_Witness ==
  /\ Peeked
  /\ FirstByte = OtherCommand
  /\ spc = "done"
  /\ ret = "unsupported socks version"
  /\ connClosed

AuthConfigured == h.ver = Socks5Version /\ h.authenticate # "nil"

\* a MethodSelectResponse naming an acceptable method went out
MethodSelected ==
  \E i \in EventsOf("write", "MethodSelectResponse") :
    trace[i].ok /\ trace[i].v # AuthMethodNoAcceptableMethods

\* C2 as stated: every finished SOCKS5 session with an authenticator configured
\* has invoked the authenticator exactly once.
C2_Original ==
  (AuthConfigured /\ spc \in {"done", "panic"}) => Cardinality(Events("auth")) = 1

\* C2 as amended: with an authenticator configured, the authenticator is invoked
\* exactly once in every session in which a MethodSelectResponse naming an
\* acceptable method was written, and not at all in a session that ends before
\* (greeting unreadable, response not written, NoAcceptable); the invocation
\* follows the MethodSelectResponse and precedes every read of a Socks5Request;
\* when it returns an error the handler returns that error and has read no
\* Socks5Request, not dialed, not listened and written no Socks5Response.
C2_AuthOnce ==
  AuthConfigured =>
    /\ MethodSelected /\ spc # "s5_auth" => Cardinality(Events("auth")) = 1
    /\ ~MethodSelected => Events("auth") = {}
    /\ Cardinality(Events("auth")) <= 1
    /\ \A k \in EventsOf("read", "Socks5Request") : \E i \in Events("auth") : i < k
    /\ \A i \in Events("auth") :
         /\ \E j \in EventsOf("write", "MethodSelectResponse") : j < i /\ trace[j].ok
         /\ ~trace[i].ok =>
              /\ spc = "done"
              /\ ret = "auth error"
              /\ EventsOf("read", "Socks5Request") = {}
              /\ EventsOf("write", "Socks5Response") = {}
              /\ Events("dial") = {}
              /\ Events("listen") = {}
              /\ Events("panic") = {}

C2_Witness ==
  /\ AuthConfigured
  /\ \E i \in Events("auth") : trace[i].ok
  /\ RequestRead("Socks5Request")

\* C4: once a MethodSelectResponse with method NoAcceptable is written, the
\* server reads no further message, never invokes the authenticator, never
\* dials or listens, and the session has ended with the connection closed.
C4_NoAcceptableEnds ==
  \A i \in EventsOf("write", "MethodSelectResponse") :
    trace[i].v = AuthMethodNoAcceptableMethods =>
      /\ i = Len(trace)
      /\ spc = "done"
      /\ connClosed
      /\ Events("auth") = {}
      /\ Events("dial") = {}
      /\ Events("listen") = {}
      /\ tun = NoTunnel

C4_Witness ==
  /\ \E i \in EventsOf("write", "MethodSelectResponse") :
       trace[i].v = AuthMethodNoAcceptableMethods /\ trace[i].ok
  /\ ret = "no supported authentication method"

\* the Socks5Response messages written with status Granted
GrantedReplies5 ==
  {i \in EventsOf("write", "Socks5Response") :
     trace[i].ok /\ trace[i].v = Socks5StatusGranted}

\* C6 as stated: in a SOCKS5 CONNECT session the Granted reply is written only
\* after the dial succeeded, the reply on the wire carries a BND address equal
\* to the local address of the target connection, it is the only Socks5Response
\* of the session, and it precedes the first relayed octet.
C6_GrantedCarriesLocal ==
  (h.ver = Socks5Version /\ req.CMD = ConnectCommand) =>
    \A i \in GrantedReplies5 :
      LET onWire == Socks5Response_UnmarshalBinary(trace[i].b)
      IN /\ \E j \in Events("dial") : j < i /\ trace[j].ok
         /\ ~onWire.err
         /\ onWire.Status = Socks5StatusGranted
         /\ onWire.Addr = target.local
         /\ EventsOf("write", "Socks5Response") = {i}
         /\ \A k \in Events("relay") : i < k

\* the status of the reply to a failed dial, by the text of the dial error
ExpectedConnectStatus(v) ==
  CASE v \in {1, 3} -> Socks5StatusConnectionRefused
    [] v = 2 -> Socks5StatusNetworkUnreaachable
    [] OTHER -> Socks5StatusHostUnreachable

\* what C7 says of the reply to a failed dial of a SOCKS5 CONNECT: its status
\* is ConnRefused when the error text contains "refused", else NetUnreachable
\* when it contains "network is unreachable", else HostUnreachable; it has no
\* bound endpoint; no tunnel is started
FailedDialReply(j) ==
  /\ EventsOf("write", "Socks5Response") = {j + 1}
  /\ trace[j + 1].v = ExpectedConnectStatus(trace[j].v)
  /\ trace[j + 1].addr = EmptyAddr
  /\ trace[j + 1].ok => trace[j + 1].b = <<Socks5Version, trace[j + 1].v, 0>>
  /\ tun = NoTunnel
  /\ target = NoTarget
  /\ Events("relay") = {}
  /\ spc = "done"

\* C7 as stated: on a failed dial of a SOCKS5 CONNECT the reply is as above
\* and the handler returns the dial error.
C7_Original ==
  h.ver = Socks5Version =>
    \A j \in Events("dial") :
      ~trace[j].ok => FailedDialReply(j) /\ ret = "dial error"

\* C7 as amended: on a failed dial of a SOCKS5 CONNECT the reply is as above
\* and the handler returns the dial error when the reply was written, and the
\* error of the write when the reply could not be written.
C7_DialFailure ==
  h.ver = Socks5Version =>
    \A j \in Events("dial") :
      ~trace[j].ok =>
        /\ FailedDialReply(j)
        /\ ret = IF trace[j + 1].ok THEN "dial error" ELSE "write error"

C7_Witness ==
  /\ h.ver = Socks5Version
  /\ \E j \in Events("dial") : ~trace[j].ok /\ trace[j].v = 2
  /\ \E i \in EventsOf("write", "Socks5Response") :
       trace[i].ok /\ trace[i].v = Socks5StatusNetworkUnreaachable
  /\ ret = "dial error"

\* C8: in a SOCKS4 CONNECT session a failed dial produces exactly one reply,
\* Rejected, and no tunnel; a successful dial produces exactly one reply,
\* Granted with an empty endpoint, written after the dial and before the
\* tunnel relays any octet.
C8_Socks4Connect ==
  h.ver = Socks4Version =>
    \A j \in Events("dial") :
      /\ EventsOf("write", "Socks4Response") = {j + 1}
      /\ trace[j + 1].addr = EmptyAddr
      /\ trace[j + 1].ok =>
           /\ ~Socks4Response_UnmarshalBinary(trace[j + 1].b).err
           /\ Socks4Response_UnmarshalBinary(trace[j + 1].b).Addr = EmptyAddr
      /\ \A k \in Events("relay") : j + 1 < k /\ trace[j + 1].ok
      /\ tun # NoTunnel => trace[j].ok /\ trace[j + 1].ok
      /\ IF trace[j].ok
         THEN trace[j + 1].v = Socks4StatusGranted
         ELSE /\ trace[j + 1].v = Socks4StatusRejected
              /\ tun = NoTunnel
              /\ target = NoTarget
              /\ Events("relay") = {}
              /\ spc = "done"

C8_Witness ==
  /\ h.ver = Socks4Version
  /\ \E j \in Events("dial") : trace[j].ok
  /\ \E i \in EventsOf("write", "Socks4Response") :
       trace[i].ok /\ trace[i].v = Socks4StatusGranted
  /\ \E k \in Events("relay") : trace[k].t = "down"

\* the session served no command: nothing dialed, nothing listened on, no tunnel
NothingServed ==
  /\ Events("dial") = {}
  /\ Events("listen") = {}
  /\ Events("panic") = {}
  /\ Events("relay") = {}
  /\ tun = NoTunnel
  /\ target = NoTarget
  /\ spc = "done"

\* C9: for a request whose command is ASSOCIATE or any value other than CONNECT
\* or BIND, the SOCKS4 handler writes exactly one reply, Rejected, the SOCKS5
\* handler writes exactly one reply, CmdNotSupported; neither dials, listens or
\* starts a tunnel, and the session terminates.
C9_UnsupportedCommand ==
  /\ (/\ h.ver = Socks4Version
      /\ RequestRead("Socks4Request")
      /\ req.CMD \notin {ConnectCommand, BindCommand}) =>
        /\ NothingServed
        /\ \E i \in 1..Len(trace) :
             /\ EventsOf("write", "Socks4Response") = {i}
             /\ Events("write") = {i}
             /\ trace[i].v = Socks4StatusRejected
  /\ (/\ h.ver = Socks5Version
      /\ RequestRead("Socks5Request")
      /\ req.CMD \notin {ConnectCommand, BindCommand}) =>
        /\ NothingServed
        /\ \E i \in 1..Len(trace) :
             /\ EventsOf("write", "Socks5Response") = {i}
             /\ trace[i].v = Socks5StatusCMDNotSupported
             /\ trace[i].addr = EmptyAddr

C9_Witness ==
  /\ h.ver = Socks5Version
  /\ RequestRead("Socks5Request")
  /\ req.CMD = AssociateCommand
  /\ \E i \in EventsOf("write", "Socks5Response") :
       trace[i].ok /\ trace[i].v = Socks5StatusCMDNotSupported
  /\ ret = "nil"

\* C10 as stated: for a SOCKS4 BIND request the handler listens, writes a first
\* Granted reply carrying the local endpoint of the listener before it accepts,
\* and accepts at most one inbound connection.
C10_BindListens ==
  (/\ h.ver = Socks4Version
   /\ RequestRead("Socks4Request")
   /\ req.CMD = BindCommand
   /\ spc \notin {"s4_handle", "s4_bind"}) =>
     /\ Events("panic") = {}
     /\ \E l \in Events("listen") :
          trace[l].ok =>
            /\ \E i \in EventsOf("write", "Socks4Response") :
                 /\ l < i
                 /\ trace[i].v = Socks4StatusGranted
                 /\ trace[i].addr = trace[l].addr
                 /\ \A a \in Events("accept") : i < a
            /\ Cardinality(Events("accept")) <= 1

(***************************************************************************)
(* Properties of selectAuthMethod (specification SpecSelect).              *)
(***************************************************************************)
\* positions of the offered list whose method the server supports
CommonPositions ==
  {i \in 1..Len(fin.offered) : fin.offered[i] \in Range(fin.supported)}

C5_WrongPasswordNoStream ==
  (/\ cfg.authMethods = <<AuthMethodUsernamePassword>>
   /\ cfg.authenticate = "userpass"
   /\ dcfg.authenticate = "userpass"
   /\ dcfg.pass # cfg.pass) =>
     /\ dret # "stream"
     /\ dpc \in {"start", "greet", "auth", "done"}
     /\ dpc = "done" => dret # "running"
     /\ Events("recv") = {}
     /\ Events("dial") = {}
     /\ Events("relay") = {}
     /\ target = NoTarget

C5_Witness ==
  /\ cfg.authMethods = <<AuthMethodUsernamePassword>>
  /\ dcfg.authMethods = <<AuthMethodUsernamePassword>>
  /\ dcfg.authenticate = "userpass"
  /\ dcfg.pass = PassWrong
  /\ dpc = "done"
  /\ dret = "authentication failure"
  /\ \E i \in EventsOf("write", "UsernamePasswordAuthResponse") :
       trace[i].ok /\ trace[i].v = AuthStatusFailure

(***************************************************************************)
(* Properties of BIND sessions and of the ident callback.                  *)
(***************************************************************************)
\* the IP of a peer is the IP of a destination, whatever their ports
SameHost(a, b) == TCPAddrIP(a).t = b.t /\ TCPAddrIP(a).b = b.b

\* handleBind was entered and has gone past Listen and Accept, or ended
BindServed ==
  /\ req.CMD = BindCommand
  /\ spc \in {"tunnel", "done", "panic"}
  /\ \A i \in Events("ident") : trace[i].ok

\* C11 as stated: a BIND session, SOCKS4 or SOCKS5, whose listen, accept and
\* reply writes did not fail has accepted a peer; it has entered the tunnel if
\* and only if the IP of the peer is the IP of the request, whatever the
\* port of the peer; on a mismatch the accepted connection is closed, a failure
\* reply is written and no octet is relayed.
C11_TunnelIffPeerMatches ==
  (h.ver \in {Socks4Version, Socks5Version} /\ BindServed) =>
    \/ \E l \in Events("listen") : ~trace[l].ok
    \/ \E w \in Events("write") : ~trace[w].ok
    \/ \E a \in Events("accept") : ~trace[a].ok
    \/ \E a \in Events("accept") :
         IF SameHost(trace[a].addr, req.Addr)
         THEN tun # NoTunnel
         ELSE /\ tun = NoTunnel
              /\ target.st = "closed"
              /\ Events("relay") = {}
              /\ trace[a + 1].e = "write"
              /\ trace[a + 1].v = IF h.ver = Socks4Version
                                  THEN Socks4StatusRejected ELSE Socks5StatusFailure

\* C12 as stated: a SOCKS5 BIND session listens; a listen failure yields a
\* single Failure reply and termination; otherwise the first reply is Granted
\* with BND the local endpoint of the listener, written before Accept; an
\* accept failure yields a Failure reply and termination; after a matching
\* peer is accepted the second reply is Granted with BND the remote endpoint of
\* the peer, written before the tunnel relays.
C12_Socks5BindReplies ==
  (/\ h.ver = Socks5Version
   /\ req.CMD = BindCommand
   /\ spc \in {"s5_accept", "tunnel", "done", "panic"}) =>
     \E l \in Events("listen") :
       /\ trace[l + 1].e = "write"
       /\ trace[l + 1].t = "Socks5Response"
       /\ ~trace[l].ok =>
            /\ EventsOf("write", "Socks5Response") = {l + 1}
            /\ trace[l + 1].v = Socks5StatusFailure
            /\ spc = "done"
       /\ trace[l].ok =>
            /\ trace[l + 1].v = Socks5StatusGranted
            /\ trace[l + 1].addr = trace[l].addr
            /\ \A a \in Events("accept") :
                 /\ l + 1 < a
                 /\ trace[a + 1].e = "write"
                 /\ ~trace[a].ok =>
                      /\ trace[a + 1].v = Socks5StatusFailure
                      /\ spc = "done"
                 /\ (trace[a].ok /\ SameHost(trace[a].addr, req.Addr)) =>
                      /\ trace[a + 1].v = Socks5StatusGranted
                      /\ trace[a + 1].addr = trace[a].addr
                      /\ \A k \in Events("relay") : a + 1 < k

\* C13 as stated: with an ident callback configured in the Options of the
\* Server, a SOCKS4 session that has read its Socks4Request has invoked the
\* callback, after the read and before any dial, listen or reply.
C13_IdentInvoked ==
  (/\ cfg.ident # "nil"
   /\ h.ver = Socks4Version
   /\ RequestRead("Socks4Request")) =>
     \E i \in Events("ident") :
       /\ \E r \in EventsOf("read", "Socks4Request") : r < i
       /\ \A k \in Events("dial") \cup Events("listen") \cup Events("write") : i < k

\* C14 as stated: when the ident callback fails, the SOCKS4 handler has written
\* a Rejected, NoIdentd or InvalidUserID reply when it ends, and has not dialed
\* or listened.
C14_IdentFailureReplies ==
  (/\ h.ver = Socks4Version
   /\ \E i \in Events("ident") : ~trace[i].ok) =>
     /\ \E w \in EventsOf("write", "Socks4Response") :
          trace[w].v \in {Socks4StatusRejected, Socks4StatusNoIdentd,
                          Socks4StatusInvalidUserID}
     /\ Events("dial") = {}
     /\ Events("listen") = {}


\* ---------------------------------------------------------------------
\* Properties of Conn.Tunnel
\* ---------------------------------------------------------------------

\* the copy tasks that had ended when the event at position r was recorded
EndedBefore(r) == {i \in Events("copyend") : i < r}

\* the result io.Copy's outcome gives for the direction of a copyend event
CopyError(i) == IF trace[i].t = "up" THEN "up error" ELSE "down error"

\* C15 as stated: Tunnel has returned only when both copy tasks have
\* terminated, also when the first one to finish ended with an error.
C15_TunnelAwaitsBoth ==
  Events("tunnelret") # {} => tun.up = "done" /\ tun.down = "done"

\* C16: Tunnel returns nil exactly when both directions ended with EOF;
\* otherwise it returns the error of the first direction, in completion
\* order, that ended with something other than EOF.
C16_TunnelResult ==
  \A r \in Events("tunnelret") :
    LET ends == EndedBefore(r)
        errs == {i \in ends : ~trace[i].ok}
    IN /\ ret = "nil" <=> (Cardinality(ends) = 2 /\ errs = {})
       /\ errs # {} =>
            \E i \in errs : /\ \A j \in errs : i <= j
                            /\ ret = CopyError(i)

\* a Tunnel whose first direction ended with EOF and whose second direction
\* ended with an error has returned that error
C16_Witness ==
  \E r \in Events("tunnelret") :
    /\ ret = "down error"
    /\ \E i, j \in EndedBefore(r) :
         /\ i < j
         /\ trace[i].t = "up" /\ trace[i].ok
         /\ trace[j].t = "down" /\ ~trace[j].ok

\* C17: a direction that reaches EOF half-closes its destination; while the
\* opposite direction is still copying, Tunnel has not returned and neither
\* stream is closed, so what the other side sends is still delivered.
C17_HalfClose ==
  \A i \in Events("copyend") :
    trace[i].ok =>
      /\ trace[i].t = "up" /\ target.st = "open" => target.wclosed
      /\ trace[i].t = "down" => tun.cwclosed
      /\ (trace[i].t = "up" /\ tun.down = "copy")
           \/ (trace[i].t = "down" /\ tun.up = "copy")
         => /\ spc = "tunnel"
            /\ Events("tunnelret") = {}
            /\ ~connClosed
            /\ target.st = "open"

\* after the client's EOF half-closed the target, the target's data was
\* still relayed to the client
C17_Witness ==
  \E i \in Events("copyend"), j \in Events("relay") :
    /\ trace[i].t = "up" /\ trace[i].ok
    /\ trace[j].t = "down"
    /\ i < j
    /\ target.wclosed


\* ---------------------------------------------------------------------
\* Properties of the release of streams
\* ---------------------------------------------------------------------

\* C18 as stated: when DialContext returns an error after the stream to
\* the proxy was opened, that stream has been closed.
C18_ErrorClosesProxy ==
  (dpc = "done" /\ dret \notin {"running", "stream", "proxy dial error"})
    => dClosed

\* C19 as stated: when the handler has returned, the client connection,
\* the dialed target, the BIND listener and the accepted BIND peer are all
\* closed.
C19_AllReleased ==
  spc = "done" => /\ connClosed
                  /\ target.st # "open"
                  /\ bind.lst # "open"

\* ---------------------------------------------------------------------
\* Properties of the reply read by Socks5Dialer
\* ---------------------------------------------------------------------

\* the octets of a dialret event hold the version and the status of a reply
ReplyOctets(i) == Len(trace[i].b) >= 2 /\ trace[i].b[1] = Socks5Version

DialerRefused ==
  \E r \in EventsOf("dread", "MethodSelectResponse") :
    trace[r].ok /\ trace[r].v = AuthMethodNoAcceptableMethods

\* the authenticator of the dialer returned an error
DialerAuthFailed == \E a \in Events("dauthret") : ~trace[a].ok

\* C21: every write of the Socks5Request by Socks5Dialer.DialContext comes
\* after the read of a MethodSelectResponse whose method is not NoAcceptable
\* and, with an authenticator configured, after the authenticator was called
\* with that method and returned nil; after NoAcceptable or a failure of the
\* authenticator no Socks5Request is written and DialContext returns an error.
C21_RequestAfterSelection ==
  /\ \A w \in EventsOf("dwrite", "Socks5Request") :
       \E r \in EventsOf("dread", "MethodSelectResponse") :
         /\ r < w
         /\ trace[r].ok
         /\ trace[r].v # AuthMethodNoAcceptableMethods
         /\ dcfg.authenticate # "nil" =>
              \E c \in Events("dauthcall"), a \in Events("dauthret") :
                /\ r < c /\ c < a /\ a < w
                /\ trace[c].v = trace[r].v
                /\ trace[a].ok
  /\ (DialerRefused \/ DialerAuthFailed) =>
       /\ EventsOf("dwrite", "Socks5Request") = {}
       /\ dpc = "done"
       /\ dret \notin {"running", "stream"}

\* the Socks5Request was written after the authenticator returned nil
C21_Witness ==
  /\ dcfg.authenticate # "nil"
  /\ \E w \in EventsOf("dwrite", "Socks5Request") : trace[w].ok
  /\ \E a \in Events("dauthret") : trace[a].ok
  /\ dpc = "reply"


\* the request the Socks4Dialer wrote, as a server decodes it
Socks4Written(w) == Socks4Request_UnmarshalBinary(trace[w].b)

\* C22 as stated: Socks4Dialer.DialContext writes exactly one Socks4Request,
\* with command CONNECT, the target as destination and the configured
\* user-id, then reads one Socks4Response; it returns the stream if and only
\* if the status of the response is Granted, and otherwise an error that
\* carries the status.
C22_Socks4Dial ==
  dpc \in {"reply4", "stream", "done"} /\ dret # "proxy dial error" =>
    /\ Cardinality(EventsOf("dwrite", "Socks4Request")) = 1
    /\ \A w \in EventsOf("dwrite", "Socks4Request") :
         trace[w].ok =>
           /\ ~Socks4Written(w).err
           /\ Socks4Written(w).CMD = ConnectCommand
           /\ Socks4Written(w).Addr = dcfg.addr
           /\ Socks4Written(w).UserID = dcfg.userID
    /\ Cardinality(EventsOf("dread", "Socks4Response")) <= 1
    /\ \A r \in EventsOf("dread", "Socks4Response") :
         /\ \E w \in EventsOf("dwrite", "Socks4Request") : w < r
         /\ trace[r].ok =>
              /\ dret = "stream" <=> trace[r].b[2] = Socks4StatusGranted
              /\ trace[r].b[2] # Socks4StatusGranted =>
                   /\ dret = "socks error"
                   /\ trace[r + 1].e = "dialret"
                   /\ trace[r + 1].v = trace[r].b[2]
    /\ dret = "stream" => \E r \in EventsOf("dread", "Socks4Response") : trace[r].ok


\* ---------------------------------------------------------------------
\* Properties of the replies to failures
\* ---------------------------------------------------------------------

\* the reads of a handler whose octets did not decode
DecodeFailures == {r \in Events("read") : ~trace[r].ok /\ trace[r].b # <<>>}

\* the failures of an injected authenticator, of a dial, a listen, an accept
OperationFailures ==
  {i \in Events("dial") \cup Events("listen") \cup Events("accept") : ~trace[i].ok}
  \cup {i \in Events("auth") : ~trace[i].ok /\ h.authenticate = "custom"}

\* C23 as stated: a session that has ended after a request did not decode,
\* an authentication failed, or a dial, listen or accept failed has attempted
\* to write a reply after the failure.
C23_ErrorReplies ==
  spc = "done" =>
    \A i \in DecodeFailures \cup OperationFailures :
      \E w \in Events("write") : i < w


\* the error a failed operation of a handler yields: the event at position i
\* is a failed dial, listen or accept, or an accept of a peer that fails the
\* IP check
OriginalError(i) ==
  IF trace[i].e = "dial" THEN "dial error"
  ELSE IF trace[i].e = "listen" THEN "listen error"
  ELSE IF trace[i].ok THEN "ip mismatch"
  ELSE "accept error"

RepliedFailures ==
  {i \in Events("dial") \cup Events("listen") \cup Events("accept") : ~trace[i].ok}
  \cup {i \in Events("accept") : trace[i].ok /\ ~checkIPAddr(req.Addr, trace[i].addr)}

\* C24 as stated: after a dial, listen, accept or IP-check failure the
\* handler attempts the failure reply and returns the error of the write
\* when the write fails, the original error when the write succeeds.
C24_WriteErrorSupersedes ==
  spc \in {"done", "panic"} =>
    \A i \in RepliedFailures :
      /\ i < Len(trace)
      /\ trace[i + 1].e = "write"
      /\ ret = IF trace[i + 1].ok THEN OriginalError(i) ELSE "write error"


\* ---------------------------------------------------------------------
\* Properties of the order of the events of one server connection
\* ---------------------------------------------------------------------

\* the place of an event of the server in the sequence of a SOCKS5 session:
\* greeting, selection, authentication, request, reply, tunnel
Socks5Phase(ev) ==
  IF ev.e = "peek" THEN 0
  ELSE IF ev.e = "read" /\ ev.t = "MethodSelectRequest" THEN 1
  ELSE IF ev.e = "write" /\ ev.t = "MethodSelectResponse" THEN 2
  ELSE IF ev.e = "auth" THEN 3
  ELSE IF ev.e \in {"read", "write"}
          /\ ev.t \in {"UsernamePasswordAuthRequest", "UsernamePasswordAuthResponse"} THEN 3
  ELSE IF ev.e = "read" /\ ev.t = "Socks5Request" THEN 4
  ELSE IF ev.e \in {"dial", "listen", "accept"} THEN 5
  ELSE IF ev.e = "write" /\ ev.t = "Socks5Response" THEN 5
  ELSE IF ev.e \in {"relay", "copyend", "tunnelret"} THEN 6
  ELSE 7

\* the events of the server, as opposed to those of a dialer and its caller
ServerEvents ==
  {i \in 1..Len(trace) :
     trace[i].e \in {"peek", "read", "write", "auth", "dial", "listen", "accept",
                     "relay", "copyend", "tunnelret"}}

\* a successful event of kind e and type t precedes position i
Preceded(i, e, t) == \E k \in EventsOf(e, t) : k < i /\ trace[k].ok

\* C25: the events of a SOCKS5 server connection are a prefix of: read of
\* the MethodSelectRequest, write of the MethodSelectResponse, authenticator,
\* read of the Socks5Request, write of the Socks5Response (two for BIND),
\* tunnel; no reply is written before its request was read, and no client
\* message is read before the reply to the previous one was written.
C25_Socks5Order ==
  h.ver = Socks5Version =>
    /\ \A i, j \in ServerEvents :
         i < j => Socks5Phase(trace[i]) <= Socks5Phase(trace[j])
    /\ Cardinality(EventsOf("read", "MethodSelectRequest")) <= 1
    /\ Cardinality(EventsOf("write", "MethodSelectResponse")) <= 1
    /\ Cardinality(EventsOf("read", "Socks5Request")) <= 1
    /\ Cardinality(EventsOf("write", "Socks5Response"))
         <= IF req.CMD = BindCommand THEN 2 ELSE 1
    /\ \A w \in EventsOf("write", "MethodSelectResponse") :
         Preceded(w, "read", "MethodSelectRequest")
    /\ \A w \in EventsOf("write", "UsernamePasswordAuthResponse") :
         Preceded(w, "read", "UsernamePasswordAuthRequest")
    /\ \A w \in EventsOf("write", "Socks5Response") :
         Preceded(w, "read", "Socks5Request")
    /\ \A r \in EventsOf("read", "UsernamePasswordAuthRequest") :
         Preceded(r, "write", "MethodSelectResponse")
    /\ \A r \in EventsOf("read", "Socks5Request") :
         /\ Preceded(r, "write", "MethodSelectResponse")
         /\ EventsOf("read", "UsernamePasswordAuthRequest") # {}
              => Preceded(r, "write", "UsernamePasswordAuthResponse")
    /\ \A k \in Events("relay") : Preceded(k, "write", "Socks5Response")

\* a session that went through every stage: selection, user name and
\* password, request, reply and a relayed segment
C25_Witness ==
  /\ h.ver = Socks5Version
  /\ EventsOf("write", "UsernamePasswordAuthResponse") # {}
  /\ EventsOf("write", "Socks5Response") # {}
  /\ Events("relay") # {}


\* ---------------------------------------------------------------------
\* Properties of concurrent sessions
\* ---------------------------------------------------------------------

\* C26 as stated: whatever a second session of the same Server does, also
\* when it fails, this session is not ended by it: its outcome is one it
\* has when it runs alone.
C26_SessionsIndependent ==
  conn2 \in {"returned", "panicked"} => spc # "killed" /\ ret # "process exit"


\* C27 as stated: once a cancellation was signalled while the tunnel is
\* running, both copy tasks are aborted, so that nothing is relayed after
\* the signal, both streams are closed, and the tunnel returns a
\* cancellation error.
C27_CancelAborts ==
  \A c \in Events("cancel") :
    (\E g \in EventsOf("write", "Socks5Response") \cup EventsOf("write", "Socks4Response") :
       g < c /\ trace[g].ok /\ tun # NoTunnel)
    => /\ \A k \in Events("relay") : k < c
       /\ \A r \in Events("tunnelret") : c < r => ret = "cancelled"


\* ---------------------------------------------------------------------
\* Properties of Peek
\* ---------------------------------------------------------------------

\* the first Read of the version handler
FirstRead == {r \in Events("read") : \A k \in Events("read") : r <= k}

\* C28: Peek(1) does not consume the version octet: the first message the
\* version handler reads begins with the octet that was peeked, and its
\* decoder is given the whole request the client wrote, VER included.
C28_PeekKeepsVersion ==
  \A p \in Events("peek"), r \in FirstRead :
    trace[p].ok =>
      /\ p < r
      /\ trace[r].b # <<>>
      /\ trace[r].b[1] = trace[p].b[1]
      /\ \E w \in EventsOf("dwrite", "MethodSelectRequest") :
           /\ w < p
           /\ trace[r].b = trace[w].b
      /\ trace[r].ok

\* the handler decoded the greeting whose first octet was peeked
C28_Witness ==
  \E p \in Events("peek"), r \in FirstRead :
    /\ trace[p].ok /\ trace[r].ok
    /\ trace[r].t = "MethodSelectRequest"
    /\ trace[r].b[1] = Socks5Version


\* ---------------------------------------------------------------------
\* Properties of the codec
\* ---------------------------------------------------------------------

\* a message of the given type was marshalled without an error
Marshalled(type) == fin.type = type /\ Len(fout) >= 1 /\ ~fout[1].err

\* C29 as stated: every Socks4Response the encoder emits is eight octets:
\* 0x00, the status, DSTPORT and DSTIP, the last two zero when the response
\* has no endpoint.
C29_Socks4ResponseFixed ==
  Marshalled("Socks4Response") =>
    /\ Len(fout[1].b) = 8
    /\ fout[1].b[1] = 0
    /\ fout[1].b[2] = fin.msg.Status
    /\ fin.msg.Addr = EmptyAddr => SubSeq(fout[1].b, 3, 8) = <<0, 0, 0, 0, 0, 0>>

\* the destination is an IPv4 literal or a DNS name, its port in 1..65535
Socks4Destination(a) == a.t \in {"ip4", "name"} /\ a.port \in 1..65535

\* an IPv4 literal 0.0.0.x with x # 0: on the wire, the mark of a SOCKS4a name
Socks4aMark(a) ==
  a.t = "ip4" /\ a.b[1] = 0 /\ a.b[2] = 0 /\ a.b[3] = 0 /\ a.b[4] # 0

\* the octets SOCKS4 and SOCKS4a prescribe for the request
Socks4Wire(m) ==
  <<Socks4Version, m.CMD, m.Addr.port \div 256, m.Addr.port % 256>>
  \o (IF m.Addr.t = "name" THEN <<0, 0, 0, 1>> ELSE m.Addr.b)
  \o m.UserID \o <<0>>
  \o (IF m.Addr.t = "name" THEN m.Addr.b \o <<0>> ELSE <<>>)

\* the request was marshalled and the octets unmarshalled again
RoundTripDone(type) == fin.type = type /\ Len(fout) = 2

\* C30 as stated: every Socks4Request with a command, a user-id without NUL
\* and an IPv4 or DNS-name destination with a port in 1..65535 survives
\* decode(encode(M)), a name being encoded with DSTIP 0.0.0.1 and the name
\* after the user-id terminator, an IPv4 literal with its own four octets.
C30_Socks4RoundTripAll ==
  (fin.type = "Socks4Request" /\ Socks4Destination(fin.msg.Addr)) =>
    /\ Len(fout) >= 1 => ~fout[1].err /\ fout[1].b = Socks4Wire(fin.msg)
    /\ Len(fout) = 2 => ~fout[2].err /\ fout[2].msg = fin.msg

\* C30, amended: the same for every such request whose destination is not
\* an IPv4 literal 0.0.0.x with x # 0; the encoding is as stated for all.
C30_Socks4RoundTrip ==
  (fin.type = "Socks4Request" /\ Socks4Destination(fin.msg.Addr)) =>
    /\ Len(fout) >= 1 => ~fout[1].err /\ fout[1].b = Socks4Wire(fin.msg)
    /\ (Len(fout) = 2 /\ ~Socks4aMark(fin.msg.Addr)) =>
         ~fout[2].err /\ fout[2].msg = fin.msg

\* a request for a DNS name with a non-empty user-id has made the round trip
C30_Witness ==
  /\ RoundTripDone("Socks4Request")
  /\ fin.msg.Addr.t = "name"
  /\ fin.msg.UserID # <<>>
  /\ fout[2].msg = fin.msg

\* the port is in 1..65535 and a DNS-name host has at most 255 octets
Socks5Encodable(a) ==
  /\ a.port \in 1..65535
  /\ a.t = "name" => Len(a.b) <= MaxFQDN

\* the ATYP of the host: IPv4 literal, IPv6 literal or DNS name
AddrTypeOf(a) ==
  IF a.t = "ip4" THEN AddrTypeIPv4 ELSE IF a.t = "ip6" THEN AddrTypeIPv6 ELSE AddrTypeFQDN

\* the octets of the address field: 4, 16 or 1 + N
AddrBytes(a) ==
  IF a.t = "ip4" THEN 4 ELSE IF a.t = "ip6" THEN 16 ELSE 1 + Len(a.b)

\* C31 as stated: encoding a Socks5Request succeeds exactly when the port is
\* in 1..65535 and a DNS name has at most 255 octets; on success the ATYP is
\* that of the host, the length is 6 + addr-bytes, and decode(encode(M)) = M.
C31_Socks5RequestCodec ==
  (fin.type = "Socks5Request" /\ Len(fout) >= 1) =>
    /\ ~fout[1].err <=> Socks5Encodable(fin.msg.Addr)
    /\ ~fout[1].err =>
         /\ fout[1].b[4] = AddrTypeOf(fin.msg.Addr)
         /\ Len(fout[1].b) = 6 + AddrBytes(fin.msg.Addr)
    /\ Len(fout) = 2 => ~fout[2].err /\ fout[2].msg = fin.msg

\* the bound endpoint is absent, or an IPv4, IPv6 or DNS-name endpoint
Socks5Bound(a) == a = EmptyAddr \/ (a.t \in {"ip4", "ip6", "name"} /\ Socks5Encodable(a))

\* C32 as stated: every Socks5Response with any status and an absent, IPv4,
\* IPv6 or DNS-name endpoint survives decode(encode(M)); without endpoint the
\* encoding is the three octets VER, REP, 0x00, which the decoder accepts as
\* it accepts the form with an endpoint.
C32_Socks5ResponseRoundTrip ==
  (fin.type = "Socks5Response" /\ Socks5Bound(fin.msg.Addr) /\ Len(fout) >= 1) =>
    /\ ~fout[1].err
    /\ fin.msg.Addr = EmptyAddr => fout[1].b = <<Socks5Version, fin.msg.Status, 0>>
    /\ Len(fout) = 2 => ~fout[2].err /\ fout[2].msg = fin.msg

\* the endpoint of a Socks4Response: absent, or IPv4 with a port in 1..65535
Socks4Bound(a) == a = EmptyAddr \/ (a.t = "ip4" /\ a.port \in 1..65535)

\* C33: the Socks4Response decoder accepts the two-octet form, yielding the
\* status and no endpoint, and the eight-octet form, yielding the status and
\* the IPv4 endpoint; every response with an absent or IPv4 endpoint survives
\* decode(encode(M)).
C33_Socks4ResponseRoundTrip ==
  (fin.type = "Socks4Response" /\ Socks4Bound(fin.msg.Addr) /\ Len(fout) = 2) =>
    /\ Len(fout[1].b) \in {2, 8}
    /\ ~fout[2].err /\ ~fout[2].panic
    /\ fout[2].msg.Status = fout[1].b[2]
    /\ Len(fout[1].b) = 2 => fout[2].msg.Addr = EmptyAddr
    /\ Len(fout[1].b) = 8 =>
         fout[2].msg.Addr = MkAddr("ip4", SubSeq(fout[1].b, 5, 8),
                                   fout[1].b[3] * 256 + fout[1].b[4])
    /\ fout[2].msg = fin.msg

\* a response in the two-octet form has been decoded
C33_Witness ==
  /\ fin.type = "Socks4Response"
  /\ Len(fout) = 2
  /\ Len(fout[1].b) = 2
  /\ fout[2].msg = fin.msg
  /\ fin.msg.Status = Socks4StatusRejected

\* the input of the decoder was cut short of a message: it is a proper prefix
\* of an encoding and not itself the short form of a response
Truncated ==
  /\ Len(fout) = 3
  /\ ~(fin.type = "Socks4Response" /\ Len(fout[2].b) = 2)
  /\ ~(fin.type = "Socks5Response" /\ Len(fout[2].b) = 3)

\* C34 as stated: for every message type, decoding a truncated input, the
\* empty input included, returns an error and never crashes.
C34_TruncatedFails == Truncated => fout[3].err /\ ~fout[3].panic

\* ---------------------------------------------------------------------
\* Properties of sessions: authentication failure and stream handling
\* ---------------------------------------------------------------------

\* the server has written a UsernamePasswordAuthResponse with status Failure
FailureWritten ==
  {w \in EventsOf("write", "UsernamePasswordAuthResponse") :
     trace[w].ok /\ trace[w].v = AuthStatusFailure}

\* C35 as stated: once the server has written a UsernamePasswordAuthResponse
\* with status Failure, it never dials a target, listens or tunnels for that
\* connection.
C35_FailureStopsSession ==
  \A w \in FailureWritten :
    \A i \in (w + 1)..Len(trace) : trace[i].e \notin {"dial", "listen", "relay", "recv"}

\* the reads of the handshake that were given octets
HandshakeReads == {r \in Events("read") : trace[r].b # <<>>}

\* the octets a successful read was given after the end of its message
AfterMessage(r) ==
  LET m == UnmarshalBinary(trace[r].t, trace[r].b)
  IN Drop(trace[r].b, Len(MarshalBinary(trace[r].t, m.msg).b))

\* the events after r in which the server takes octets of the client
LaterTaken(r) ==
  {j \in (r + 1)..Len(trace) :
     trace[j].e = "read" \/ (trace[j].e = "relay" /\ trace[j].t = "up")}

\* the next octets the server will take or has taken from the client after r
NextTaken(r) ==
  IF LaterTaken(r) = {} THEN rbuf
  ELSE trace[CHOOSE j \in LaterTaken(r) : \A k \in LaterTaken(r) : j <= k].b

\* C36 as stated: Conn.Read delivers exactly one message however the stream
\* segments the octets: a read does not fail on the first part of a message
\* whose rest is the next segment, and the octets that came in the same
\* underlying read after the end of the message are the first octets of the
\* next read or of the tunnel.
C36_ReadFramesMessages ==
  \A r \in HandshakeReads :
    /\ (~trace[r].ok /\ LaterTaken(r) = {} /\ c2s # <<>>) =>
         UnmarshalBinary(trace[r].t, trace[r].b \o Head(c2s)).err
    /\ trace[r].ok =>
         Take(NextTaken(r), Len(AfterMessage(r))) = AfterMessage(r)

\* the payload chunks the proxy has sent after its final reply
SentDown == {i \in Events("relay") : trace[i].t = "down"}

\* the payload chunks the caller has read from the stream DialContext returned
CallerReceived == {i \in Events("recv") : trace[i].t = "caller"}

\* C37 as stated: the stream a dialer returns is transparent: every octet
\* the proxy sent after its final handshake reply has been read from the
\* returned stream or is still to be read from it, also when it reached the
\* dialer in the same underlying read as the reply.
C37_StreamTransparent ==
  dret = "stream" =>
    Cardinality(SentDown) = Cardinality(CallerReceived) + Len(s2c)

\* the reads of a MethodSelectResponse that names a method the dialer did
\* not offer
UnofferedSelections ==
  {r \in EventsOf("dread", "MethodSelectResponse") :
     trace[r].ok /\ trace[r].v \notin Range(dcfg.authMethods)}

\* C38 as stated: DialContext never proceeds to authentication or to the
\* Socks5Request when the MethodSelectResponse names a method that the
\* dialer did not offer.
C38_UnofferedMethodStops ==
  \A r \in UnofferedSelections :
    \A i \in (r + 1)..Len(trace) : trace[i].e \notin {"dauthcall", "dwrite"}

\* listener.Accept has failed during a SOCKS4 BIND
Socks4AcceptFailures ==
  {a \in Events("accept") : ~trace[a].ok /\ h.ver = Socks4Version}

\* C39 as stated: when listener.Accept fails during a SOCKS4 BIND the
\* handler writes a Rejected reply and returns the accept error (the error of
\* the write when that fails); it does not crash.
C39_Socks4AcceptFailure ==
  \A a \in Socks4AcceptFailures :
    /\ spc # "panic"
    /\ \E w \in EventsOf("write", "Socks4Response") :
         w > a /\ trace[w].v = Socks4StatusRejected
    /\ ret \in {"accept error", "write error"}

\* the client stream of a running tunnel has ended; the stream of the target
\* ends after at most MaxRelay chunks
StreamsEnded == tun.up # "idle" /\ (cEnd # "open" \/ connClosed)

\* Tunnel has returned and both copy tasks have sent their result and ended
TunnelTerminated == spc # "tunnel" /\ tun.up = "done" /\ tun.down = "done"

\* C40: when both streams of a tunnel reach EOF or fail, Conn.Tunnel returns
\* and both copy tasks terminate; no copy task stays blocked on the send of
\* its result, also when Tunnel has returned before.
C40_TunnelTerminates == StreamsEnded ~> TunnelTerminated

\* a copy task has sent its result after Tunnel had returned with the error
\* of the other: the result stays in the buffer of errCh
C40_Witness ==
  /\ spc = "done"
  /\ tun.up = "done"
  /\ tun.down = "done"
  /\ Len(tun.errCh) = 1
  /\ ret \in {"up error", "down error"}

====
